---- MODULE Spec2Model ----
(***************************************************************************)
(* Model of the Dockerfile generator of VedantSURTI/AXL_test:              *)
(*   app/services/dockerfile_creation.py                                   *)
(*     parse_key_value_pairs, load_configs_from_excel, generate_dockerfile *)
(*                                                                         *)
(* A Python str is a sequence of characters.  A character is a one-element *)
(* TLA+ string; a few characters of the model stand for a run of           *)
(* characters none of which is a separator, a blank, a digit or a quote    *)
(* ("python:3.11", "FROM"), so that every split/strip/replace below acts   *)
(* on them as Python acts on the run.                                      *)
(***************************************************************************)
EXTENDS Integers, Sequences, FiniteSets, TLC

VARIABLES df, pc, loaded, rendered, out, resp, up, run, build

vars == <<df, pc, loaded, rendered, out, resp, up, run, build>>

\* ------------------------------------------------------------------ str

\* str.isspace() of one character
IsSpace(c) == c \in {" ", "\n", "\t"}

RECURSIVE LStrip(_)
\* str.lstrip()
LStrip(s) ==
  IF s = <<>> THEN <<>>
  ELSE IF IsSpace(Head(s)) THEN LStrip(Tail(s)) ELSE s

RECURSIVE RStrip(_)
\* str.rstrip()
RStrip(s) ==
  IF s = <<>> THEN <<>>
  ELSE IF IsSpace(s[Len(s)]) THEN RStrip(SubSeq(s, 1, Len(s) - 1)) ELSE s

\* str.strip()
Strip(s) == RStrip(LStrip(s))

\* c in s
Contains(s, c) == \E i \in 1..Len(s) : s[i] = c

\* s.find(c), 0 when absent (positions count from 1)
Find(s, c) ==
  IF Contains(s, c)
  THEN CHOOSE i \in 1..Len(s) : s[i] = c /\ \A j \in 1..(i - 1) : s[j] # c
  ELSE 0

RECURSIVE Split(_, _)
\* s.split(sep) for a one-character sep: always at least one piece
Split(s, sep) ==
  IF ~Contains(s, sep) THEN <<s>>
  ELSE LET i == Find(s, sep)
       IN  <<SubSeq(s, 1, i - 1)>> \o Split(SubSeq(s, i + 1, Len(s)), sep)

\* s.split(sep, 1)
Split1(s, sep) ==
  IF ~Contains(s, sep) THEN <<s>>
  ELSE LET i == Find(s, sep)
       IN  <<SubSeq(s, 1, i - 1), SubSeq(s, i + 1, Len(s))>>

RECURSIVE SplitWS(_)
\* s.split(): pieces between runs of whitespace, no empty piece
SplitWS(s) ==
  LET t == LStrip(s)
  IN  IF t = <<>> THEN <<>>
      ELSE LET stops == {i \in 1..Len(t) : IsSpace(t[i])}
               e == IF stops = {} THEN Len(t) + 1
                    ELSE CHOOSE i \in stops : \A j \in stops : i <= j
           IN  <<SubSeq(t, 1, e - 1)>> \o SplitWS(SubSeq(t, e, Len(t)))

\* s.replace(a, b) for one-character a and b
Replace(s, a, b) == [i \in 1..Len(s) |-> IF s[i] = a THEN b ELSE s[i]]

RECURSIVE Join(_, _)
\* sep.join(parts)
Join(sep, parts) ==
  IF parts = <<>> THEN <<>>
  ELSE IF Len(parts) = 1 THEN parts[1]
  ELSE parts[1] \o sep \o Join(sep, Tail(parts))

RECURSIVE Flatten(_)
\* the concatenation of a list of lists
Flatten(ss) == IF ss = <<>> THEN <<>> ELSE Head(ss) \o Flatten(Tail(ss))

\* [f(x) for x in xs if keep(x)] with keep = "non-empty after strip", f = strip
StripNonEmpty(parts) ==
  LET RECURSIVE go(_)
      go(ps) == IF ps = <<>> THEN <<>>
                ELSE IF Strip(Head(ps)) # <<>>
                     THEN <<Strip(Head(ps))>> \o go(Tail(ps))
                     ELSE go(Tail(ps))
  IN  go(parts)

\* ----------------------------------------------------------------- dict

\* A dict is the sequence of its <<key, value>> items in insertion order.
DictHas(d, k) == \E i \in 1..Len(d) : d[i][1] = k

\* DictSet that adds an item for a key already present
DictSetAppend(d, k, v) == Append(d, <<k, v>>)

\* d[k] = v: a present key keeps its position and takes the new value,
\* a new key goes last
DictSet(d, k, v) ==
  IF DictHas(d, k)
  THEN [i \in 1..Len(d) |-> IF d[i][1] = k THEN <<k, v>> ELSE d[i]]
  ELSE Append(d, <<k, v>>)

\* d[k] of a present key
DictGet(d, k) == d[CHOOSE i \in 1..Len(d) : d[i][1] = k][2]

\* --------------------------------------------------------- Python values

\* The values a Stage field or json.loads can hold, by type.
PyNone == [t |-> "none"]
PyStr(s) == [t |-> "str", s |-> s]
PyInt(n) == [t |-> "int", n |-> n]
PyBool(b) == [t |-> "bool", b |-> b]
PyList(xs) == [t |-> "list", xs |-> xs]
PyDict(d) == [t |-> "dict", d |-> d]

\* bool(v)
Truthy(v) ==
  CASE v.t = "none" -> FALSE
    [] v.t = "str"  -> v.s # <<>>
    [] v.t = "int"  -> v.n # 0
    [] v.t = "bool" -> v.b
    [] v.t = "list" -> v.xs # <<>>
    [] v.t = "dict" -> v.d # <<>>

\* iter(v) succeeds
Iterable(v) == v.t \in {"str", "list", "dict"}

\* list(v) of an iterable v: the characters of a str, the keys of a dict
IterItems(v) ==
  CASE v.t = "list" -> v.xs
    [] v.t = "str"  -> [i \in 1..Len(v.s) |-> PyStr(<<v.s[i]>>)]
    [] v.t = "dict" -> [i \in 1..Len(v.d) |-> PyStr(v.d[i][1])]

\* -------------------------------------------------------------- numbers

Digits == {"0", "1", "2", "3", "4", "5", "6", "7", "8", "9"}

DigitVal(c) ==
  CASE c = "0" -> 0 [] c = "1" -> 1 [] c = "2" -> 2 [] c = "3" -> 3
    [] c = "4" -> 4 [] c = "5" -> 5 [] c = "6" -> 6 [] c = "7" -> 7
    [] c = "8" -> 8 [] c = "9" -> 9

DigitChar(n) == CHOOSE c \in Digits : DigitVal(c) = n

RECURSIVE DecVal(_)
\* the number a run of decimal digits denotes (0 for the empty run)
DecVal(ds) ==
  IF ds = <<>> THEN 0
  ELSE 10 * DecVal(SubSeq(ds, 1, Len(ds) - 1)) + DigitVal(ds[Len(ds)])

AllDigits(s) == \A i \in 1..Len(s) : s[i] \in Digits

\* float(s) accepts s: digits with at most one ".", at least one digit.
\* (Signs, exponents, "_", inf and nan are not characters of the model.)
FloatOk(s) ==
  LET p == Split1(s, ".")
  IN  IF Len(p) = 1 THEN s # <<>> /\ AllDigits(s)
      ELSE AllDigits(p[1]) /\ AllDigits(p[2]) /\ (p[1] # <<>> \/ p[2] # <<>>)

\* int(s.replace(".", "")): the digits of s, the point dropped
IntOfDigits(s) == DecVal(SelectSeq(s, LAMBDA c : c # "."))

\* int(float(s)) for an accepted s: truncation drops the fraction
IntOfFloat(s) == DecVal(Split1(s, ".")[1])

RECURSIVE IntToStr(_)
\* str(n) for an int n >= 0
IntToStr(n) ==
  IF n < 10 THEN <<DigitChar(n)>>
  ELSE IntToStr(n \div 10) \o <<DigitChar(n % 10)>>

\* ----------------------------------------------------------- json.loads

\* The JSON string literals of the model and the str each one decodes to.
JsonStrLits ==
  {"\"src\"", "\"dest\"", "\"chown\"", "\"from\"",
   "\"a\"", "\"b\"", "\"c\"", "\"d\"", "\"u\"", "\"s\"", "\"sh\"", "\"-c\""}

StrLitVal(c) ==
  CASE c = "\"src\""   -> <<"src">>
    [] c = "\"dest\""  -> <<"dest">>
    [] c = "\"chown\"" -> <<"chown">>
    [] c = "\"from\""  -> <<"from">>
    [] c = "\"a\""     -> <<"a">>
    [] c = "\"b\""     -> <<"b">>
    [] c = "\"c\""     -> <<"c">>
    [] c = "\"d\""     -> <<"d">>
    [] c = "\"u\""     -> <<"u">>
    [] c = "\"s\""     -> <<"s">>
    [] c = "\"sh\""    -> <<"s", "h">>
    [] c = "\"-c\""    -> <<"-", "c">>

JsonFail == [ok |-> FALSE, v |-> PyNone, n |-> 0]

\* the first position >= i that holds no whitespace (Len + 1 when none)
SkipWS(ts, i) ==
  LET rest == {j \in i..Len(ts) : ~IsSpace(ts[j])}
  IN  IF rest = {} THEN Len(ts) + 1
      ELSE CHOOSE j \in rest : \A k \in rest : j <= k

\* the end of the number that starts at digit position i: "0" alone, or a
\* maximal run of digits
NumEnd(ts, i) ==
  IF ts[i] = "0" THEN i
  ELSE CHOOSE j \in i..Len(ts) :
         /\ \A k \in i..j : ts[k] \in Digits
         /\ (j = Len(ts) \/ ts[j + 1] \notin Digits)

RECURSIVE JsonValue(_, _), JsonElems(_, _, _), JsonMembers(_, _, _)

\* one JSON value starting at or after position i0:
\* [ok, v: the decoded value, n: the position after it]
JsonValue(ts, i0) ==
  LET i == SkipWS(ts, i0)
  IN  IF i > Len(ts) THEN JsonFail
      ELSE LET c == ts[i]
           IN  CASE c \in JsonStrLits ->
                      [ok |-> TRUE, v |-> PyStr(StrLitVal(c)), n |-> i + 1]
                 [] c \in Digits ->
                      [ok |-> TRUE,
                       v |-> PyInt(DecVal(SubSeq(ts, i, NumEnd(ts, i)))),
                       n |-> NumEnd(ts, i) + 1]
                 [] c = "null"  -> [ok |-> TRUE, v |-> PyNone, n |-> i + 1]
                 [] c = "true"  -> [ok |-> TRUE, v |-> PyBool(TRUE), n |-> i + 1]
                 [] c = "false" -> [ok |-> TRUE, v |-> PyBool(FALSE), n |-> i + 1]
                 [] c = "[" ->
                      LET j == SkipWS(ts, i + 1)
                      IN  IF j <= Len(ts) /\ ts[j] = "]"
                          THEN [ok |-> TRUE, v |-> PyList(<<>>), n |-> j + 1]
                          ELSE JsonElems(ts, i + 1, <<>>)
                 [] c = "{" ->
                      LET j == SkipWS(ts, i + 1)
                      IN  IF j <= Len(ts) /\ ts[j] = "}"
                          THEN [ok |-> TRUE, v |-> PyDict(<<>>), n |-> j + 1]
                          ELSE JsonMembers(ts, i + 1, <<>>)
                 [] OTHER -> JsonFail

\* the elements of an array after "[" or ",", acc the ones already decoded
JsonElems(ts, i, acc) ==
  LET r == JsonValue(ts, i)
      j == SkipWS(ts, r.n)
  IN  IF ~r.ok \/ j > Len(ts) THEN JsonFail
      ELSE IF ts[j] = "," THEN JsonElems(ts, j + 1, Append(acc, r.v))
      ELSE IF ts[j] = "]"
           THEN [ok |-> TRUE, v |-> PyList(Append(acc, r.v)), n |-> j + 1]
      ELSE JsonFail

\* the members of an object after "{" or ","; a repeated key keeps the last
JsonMembers(ts, i, acc) ==
  LET j == SkipWS(ts, i)
      k == SkipWS(ts, j + 1)
      r == JsonValue(ts, k + 1)
      m == SkipWS(ts, r.n)
  IN  IF j > Len(ts) \/ ts[j] \notin JsonStrLits THEN JsonFail
      ELSE IF k > Len(ts) \/ ts[k] # ":" THEN JsonFail
      ELSE IF ~r.ok \/ m > Len(ts) THEN JsonFail
      ELSE IF ts[m] = ","
           THEN JsonMembers(ts, m + 1, DictSet(acc, StrLitVal(ts[j]), r.v))
      ELSE IF ts[m] = "}"
           THEN [ok |-> TRUE,
                 v |-> PyDict(DictSet(acc, StrLitVal(ts[j]), r.v)),
                 n |-> m + 1]
      ELSE JsonFail

\* json.loads(s): [ok |-> FALSE] is JSONDecodeError (a ValueError)
json_loads(s) ==
  LET r == JsonValue(s, 1)
  IN  IF r.ok /\ SkipWS(s, r.n) > Len(s) THEN [ok |-> TRUE, v |-> r.v]
      ELSE [ok |-> FALSE, v |-> PyNone]

\* ------------------------------------------------ instructions and Stage

\* f"{v}" of a value placed in an f-string
Fmt(v) ==
  CASE v.t = "str"  -> v.s
    [] v.t = "int"  -> IntToStr(v.n)
    [] v.t = "none" -> <<"None">>
    [] v.t = "bool" -> IF v.b THEN <<"True">> ELSE <<"False">>

\* CopyInstruction(src, dest, from_stage)
CopyInstruction(src, dest, from_stage) ==
  [src |-> src, dest |-> dest, from_stage |-> from_stage]

\* CopyInstruction.to_docker
CopyToDocker(c) ==
  IF Truthy(c.from_stage)
  THEN <<"COPY", " ", "--from=">> \o Fmt(c.from_stage) \o <<" ">>
         \o Fmt(c.src) \o <<" ">> \o Fmt(c.dest)
  ELSE <<"COPY", " ">> \o Fmt(c.src) \o <<" ">> \o Fmt(c.dest)

\* AddInstruction(src, dest, chown)
AddInstruction(src, dest, chown) == [src |-> src, dest |-> dest, chown |-> chown]

\* AddInstruction.to_docker
AddToDocker(a) ==
  IF Truthy(a.chown)
  THEN <<"ADD", " ", "--chown=">> \o Fmt(a.chown) \o <<" ">>
         \o Fmt(a.src) \o <<" ">> \o Fmt(a.dest)
  ELSE <<"ADD", " ">> \o Fmt(a.src) \o <<" ">> \o Fmt(a.dest)

\* ",".join(f'"{x}"' for x in xs)
QuoteJoin(xs) ==
  Join(<<",">>, [i \in 1..Len(xs) |-> <<"\"">> \o Fmt(xs[i]) \o <<"\"">>])

\* ---------------------------------------------------- generate_dockerfile

\* The lines one pass of the loop body appends for a stage, field by field.
FromLines(st) ==
  IF st.name # <<>>
  THEN << <<"FROM", " ">> \o st.base_image \o <<" ", "AS", " ">> \o st.name >>
  ELSE << <<"FROM", " ">> \o st.base_image >>

MaintainerLines(st) ==
  IF st.maintainer # <<>> THEN << <<"MAINTAINER", " ">> \o st.maintainer >>
  ELSE <<>>

LabelLines(st) ==
  [i \in 1..Len(st.label_pairs) |->
     <<"LABEL", " ">> \o st.label_pairs[i][1] \o <<"=", "\"">>
       \o st.label_pairs[i][2] \o <<"\"">>]

ArgLines(st) ==
  [i \in 1..Len(st.args) |->
     <<"ARG", " ">> \o st.args[i][1] \o <<"=">> \o st.args[i][2]]

EnvLines(st) ==
  [i \in 1..Len(st.env_vars) |->
     <<"ENV", " ">> \o st.env_vars[i][1] \o <<"=">> \o st.env_vars[i][2]]

WorkdirLines(st) ==
  IF st.workdir # <<>> THEN << <<"WORKDIR", " ">> \o st.workdir >> ELSE <<>>

AddLines(st) == [i \in 1..Len(st.add) |-> AddToDocker(st.add[i])]

CopyLines(st) == [i \in 1..Len(st.copy) |-> CopyToDocker(st.copy[i])]

RunLines(st) ==
  [i \in 1..Len(st.run_commands) |-> <<"RUN", " ">> \o st.run_commands[i]]

OnbuildLines(st) ==
  IF st.onbuild_cmd # <<>> THEN << <<"ONBUILD", " ">> \o st.onbuild_cmd >>
  ELSE <<>>

\* "for s in stage.shell" raises TypeError on a truthy value with no iterator
ShellRaises(st) == Truthy(st.shell) /\ ~Iterable(st.shell)

ShellLines(st) ==
  IF Truthy(st.shell)
  THEN << <<"SHELL", " ", "[">> \o QuoteJoin(IterItems(st.shell)) \o <<"]">> >>
  ELSE <<>>

StopsignalLines(st) ==
  IF st.stopsignal # <<>> THEN << <<"STOPSIGNAL", " ">> \o st.stopsignal >>
  ELSE <<>>

UserLines(st) ==
  IF st.user # <<>> THEN << <<"USER", " ">> \o st.user >> ELSE <<>>

VolumeLines(st) ==
  [i \in 1..Len(st.volume_dirs) |->
     <<"VOLUME", " ", "[", "\"">> \o st.volume_dirs[i] \o <<"\"", "]">>]

ExposeLines(st) ==
  [i \in 1..Len(st.expose_ports) |->
     <<"EXPOSE", " ">> \o IntToStr(st.expose_ports[i])]

HealthcheckLines(st) ==
  IF st.healthcheck # <<>> THEN << <<"HEALTHCHECK", " ">> \o st.healthcheck >>
  ELSE <<>>

EntrypointLines(st) ==
  IF Truthy(st.entrypoint)
  THEN << <<"ENTRYPOINT", " ", "[">> \o QuoteJoin(IterItems(st.entrypoint))
            \o <<"]">> >>
  ELSE <<>>

CmdLines(st) ==
  IF Truthy(st.cmd)
  THEN << <<"CMD", " ", "[">> \o QuoteJoin(IterItems(st.cmd)) \o <<"]">> >>
  ELSE <<>>

\* StageLines with the ENV loop placed before the ARG loop
StageLinesEnvFirst(st) ==
  FromLines(st) \o MaintainerLines(st) \o LabelLines(st) \o EnvLines(st)
    \o ArgLines(st) \o WorkdirLines(st) \o AddLines(st) \o CopyLines(st)
    \o RunLines(st) \o OnbuildLines(st) \o ShellLines(st)
    \o StopsignalLines(st) \o UserLines(st) \o VolumeLines(st)
    \o ExposeLines(st) \o HealthcheckLines(st) \o EntrypointLines(st)
    \o CmdLines(st) \o << <<>> >>

\* the lines of one stage, the spacing line last
StageLines(st) ==
  FromLines(st) \o MaintainerLines(st) \o LabelLines(st) \o ArgLines(st)
    \o EnvLines(st) \o WorkdirLines(st) \o AddLines(st) \o CopyLines(st)
    \o RunLines(st) \o OnbuildLines(st) \o ShellLines(st)
    \o StopsignalLines(st) \o UserLines(st) \o VolumeLines(st)
    \o ExposeLines(st) \o HealthcheckLines(st) \o EntrypointLines(st)
    \o CmdLines(st) \o << <<>> >>

\* generate_dockerfile without the final strip()
GenerateNoStrip(stages) ==
  IF \E i \in 1..Len(stages) : ShellRaises(stages[i])
  THEN [ok |-> FALSE, exc |-> "TypeError", text |-> <<>>]
  ELSE [ok |-> TRUE, exc |-> "",
        text |-> Join(<<"\n">>,
                   Flatten([i \in 1..Len(stages) |-> StageLines(stages[i])]))]

\* generate_dockerfile(stages): [ok |-> TRUE, text] or the TypeError raised
generate_dockerfile(stages) ==
  IF \E i \in 1..Len(stages) : ShellRaises(stages[i])
  THEN [ok |-> FALSE, exc |-> "TypeError", text |-> <<>>]
  ELSE [ok |-> TRUE, exc |-> "",
        text |-> Strip(Join(<<"\n">>,
                   Flatten([i \in 1..Len(stages) |-> StageLines(stages[i])])))]

\* ------------------------------------------------- parse_key_value_pairs

\* s.rsplit(sep, 1)
RSplit1(s, sep) ==
  IF ~Contains(s, sep) THEN <<s>>
  ELSE LET i == CHOOSE i \in 1..Len(s) :
                  s[i] = sep /\ \A j \in (i + 1)..Len(s) : s[j] # sep
       IN  <<SubSeq(s, 1, i - 1), SubSeq(s, i + 1, Len(s))>>

RECURSIVE KVFoldLastEq(_, _)
\* KVFold splitting each piece on its last "="
KVFoldLastEq(pieces, result) ==
  IF pieces = <<>> THEN result
  ELSE LET kv == Head(pieces)
       IN  IF Contains(kv, "=")
           THEN LET p == RSplit1(kv, "=")
                IN  KVFoldLastEq(Tail(pieces),
                                 DictSet(result, Strip(p[1]), Strip(p[2])))
           ELSE KVFoldLastEq(Tail(pieces), result)

RECURSIVE KVFold(_, _)
\* the loop of parse_key_value_pairs over the pieces, result the dict so far
KVFold(pieces, result) ==
  IF pieces = <<>> THEN result
  ELSE LET kv == Head(pieces)
       IN  IF Contains(kv, "=")
           THEN LET p == Split1(kv, "=")
                IN  KVFold(Tail(pieces), DictSet(result, Strip(p[1]), Strip(p[2])))
           ELSE KVFold(Tail(pieces), result)

\* parse_key_value_pairs(cell, sep)
parse_key_value_pairs(cell, sep) ==
  IF cell = <<>> \/ Strip(cell) = <<>> THEN <<>>
  ELSE KVFold(Split(cell, sep), <<>>)

\* ------------------------------------------------ load_configs_from_excel

\* The columns of the sheet.  Every cell is the str the loader reads after
\* fillna(''): an empty cell, and a cell of an absent optional column, is ''.
Columns ==
  {"app_name", "stage_name", "base_image", "workdir", "add_files",
   "copy_pairs", "run_commands", "env_vars", "args", "label_pairs",
   "expose_ports", "entrypoint", "cmd", "shell", "volume_dirs", "maintainer",
   "onbuild_cmd", "stopsignal", "user", "healthcheck"}

\* a[key] of one decoded element succeeds
HasItem(a, key) == a.t = "dict" /\ DictHas(a.d, key)

\* a.get(key)
GetOrNone(a, key) == IF DictHas(a.d, key) THEN DictGet(a.d, key) ELSE PyNone

RECURSIVE AddLoop(_, _)
\* the loop over add_list: the element that raises ends it, and the except
\* clause leaves the instructions appended before it in the list
AddLoop(items, acc) ==
  IF items = <<>> THEN acc
  ELSE LET a == Head(items)
       IN  IF HasItem(a, <<"src">>) /\ HasItem(a, <<"dest">>)
           THEN AddLoop(Tail(items),
                  Append(acc, AddInstruction(DictGet(a.d, <<"src">>),
                                DictGet(a.d, <<"dest">>),
                                GetOrNone(a, <<"chown">>))))
           ELSE acc

\* add_instructions of a row
LoadAdd(cell) ==
  IF Strip(cell) = <<>> THEN <<>>
  ELSE LET r == json_loads(cell)
       IN  IF r.ok /\ Iterable(r.v) THEN AddLoop(IterItems(r.v), <<>>) ELSE <<>>

RECURSIVE CopyLoop(_, _)
\* the loop over copy_list, as AddLoop
CopyLoop(items, acc) ==
  IF items = <<>> THEN acc
  ELSE LET c == Head(items)
       IN  IF HasItem(c, <<"src">>) /\ HasItem(c, <<"dest">>)
           THEN CopyLoop(Tail(items),
                  Append(acc, CopyInstruction(DictGet(c.d, <<"src">>),
                                DictGet(c.d, <<"dest">>),
                                GetOrNone(c, <<"from">>))))
           ELSE acc

\* copy_instructions of a row
LoadCopy(cell) ==
  IF Strip(cell) = <<>> THEN <<>>
  ELSE LET r == json_loads(cell)
       IN  IF r.ok /\ Iterable(r.v) THEN CopyLoop(IterItems(r.v), <<>>) ELSE <<>>

\* run_cmds of a row
LoadRun(cell) ==
  IF Strip(cell) = <<>> THEN <<>> ELSE StripNonEmpty(Split(cell, ";"))

\* the stripped non-empty tokens of the expose_ports cell
PortTokens(cell) ==
  IF Strip(cell) = <<>> THEN <<>>
  ELSE StripNonEmpty(Split(Replace(cell, ",", ";"), ";"))

\* int(float(...)) raises ValueError on some token of the cell
PortsRaise(cell) ==
  \E i \in 1..Len(PortTokens(cell)) : ~FloatOk(PortTokens(cell)[i])

\* expose_ports of a row whose tokens all convert
LoadPorts(cell) ==
  [i \in 1..Len(PortTokens(cell)) |-> IntOfFloat(PortTokens(cell)[i])]

\* entrypoint and cmd of a row
LoadArgv(cell) ==
  IF Strip(cell) # <<>>
  THEN PyList([i \in 1..Len(SplitWS(cell)) |-> PyStr(SplitWS(cell)[i])])
  ELSE PyNone

\* LoadShell with the except clause leaving shell = None
LoadShellNoFallback(cell) ==
  IF Strip(cell) = <<>> THEN PyNone
  ELSE LET r == json_loads(cell) IN IF r.ok THEN r.v ELSE PyNone

\* shell of a row
LoadShell(cell) ==
  IF Strip(cell) = <<>> THEN PyNone
  ELSE LET r == json_loads(cell)
       IN  IF r.ok THEN r.v
           ELSE PyList([i \in 1..Len(SplitWS(cell)) |-> PyStr(SplitWS(cell)[i])])

\* volume_dirs of a row
LoadVolumes(cell) ==
  IF Strip(cell) = <<>> THEN <<>>
  ELSE StripNonEmpty(Split(Replace(cell, ",", ";"), ";"))

\* DockerfileStage(...) as the loop body builds it from a row
DockerfileStage(row) ==
  [name         |-> row.stage_name,
   base_image   |-> row.base_image,
   workdir      |-> row.workdir,
   add          |-> LoadAdd(row.add_files),
   copy         |-> LoadCopy(row.copy_pairs),
   run_commands |-> LoadRun(row.run_commands),
   env_vars     |-> parse_key_value_pairs(row.env_vars, ";"),
   args         |-> parse_key_value_pairs(row.args, ";"),
   expose_ports |-> LoadPorts(row.expose_ports),
   entrypoint   |-> LoadArgv(row.entrypoint),
   cmd          |-> LoadArgv(row.cmd),
   label_pairs  |-> parse_key_value_pairs(row.label_pairs, ";"),
   maintainer   |-> row.maintainer,
   onbuild_cmd  |-> row.onbuild_cmd,
   shell        |-> LoadShell(row.shell),
   stopsignal   |-> row.stopsignal,
   user         |-> row.user,
   volume_dirs  |-> LoadVolumes(row.volume_dirs),
   healthcheck  |-> row.healthcheck]

\* ConfigsAppend with app_configs[app_name].insert(0, stage)
ConfigsPrepend(app_configs, app_name, stage) ==
  IF DictHas(app_configs, app_name)
  THEN DictSet(app_configs, app_name, <<stage>> \o DictGet(app_configs, app_name))
  ELSE DictSet(app_configs, app_name, <<stage>>)

\* app_configs[app_name].append(stage), the key created on first use
ConfigsAppend(app_configs, app_name, stage) ==
  IF DictHas(app_configs, app_name)
  THEN DictSet(app_configs, app_name, Append(DictGet(app_configs, app_name), stage))
  ELSE DictSet(app_configs, app_name, <<stage>>)

RECURSIVE LoadRows(_, _)
\* the loop over df.iterrows(): an exception raised in the body leaves the
\* function, and the rows after it are never read
LoadRows(rows, app_configs) ==
  IF rows = <<>> THEN [ok |-> TRUE, exc |-> "", configs |-> app_configs]
  ELSE IF PortsRaise(Head(rows).expose_ports)
       THEN [ok |-> FALSE, exc |-> "ValueError", configs |-> <<>>]
       ELSE LoadRows(Tail(rows),
              ConfigsAppend(app_configs, Head(rows).app_name,
                            DockerfileStage(Head(rows))))

\* load_configs_from_excel(file_path), sheet the rows read from the file
load_configs_from_excel(sheet) == LoadRows(sheet, <<>>)

\* ---------------------------------------------------------------- inputs

\* Bounds of the input sets.
MaxSetFields == 2
MaxKVTokens == 3
MaxPortTokens == 2
MaxRows == 3

OptColumns == Columns \ {"app_name", "base_image"}

\* a row of app with the given base image and every other cell empty
BaseRow(app, base) ==
  [c \in Columns |->
     IF c = "app_name" THEN app ELSE IF c = "base_image" THEN base ELSE <<>>]

\* a row with every optional cell filled
FullRow ==
  [app_name     |-> <<"svc1">>,
   stage_name   |-> <<"builder">>,
   base_image   |-> <<"python:3.11-slim">>,
   workdir      |-> <<"/app">>,
   add_files    |-> <<"[", "{", "\"src\"", ":", "\"a\"", ",", "\"dest\"", ":",
                      "\"b\"", "}", "]">>,
   copy_pairs   |-> <<"[", "{", "\"src\"", ":", "\"c\"", ",", "\"dest\"", ":",
                      "\"d\"", ",", "\"from\"", ":", "\"s\"", "}", "]">>,
   run_commands |-> <<"pip", " ", "install", ";", " ", "make">>,
   env_vars     |-> <<"k", "=", "v">>,
   args         |-> <<"j", "=", "w">>,
   label_pairs  |-> <<"k", "=", "v">>,
   expose_ports |-> <<"8", "0">>,
   entrypoint   |-> <<"python">>,
   cmd          |-> <<"python", " ", "app.py">>,
   shell        |-> <<"[", "\"sh\"", ",", "\"-c\"", "]">>,
   volume_dirs  |-> <<"/data">>,
   maintainer   |-> <<"me">>,
   onbuild_cmd  |-> <<"RUN", " ", "make">>,
   stopsignal   |-> <<"SIGTERM">>,
   user         |-> <<"app">>,
   healthcheck  |-> <<"CMD", " ", "curl">>]

\* the record of the worked example: svc1 on python:3.11-slim
ExampleRow ==
  [BaseRow(<<"svc1">>, <<"python:3.11-slim">>) EXCEPT
     !.workdir = <<"/app">>,
     !.run_commands = <<"pip", " ", "install", " ", "-r", " ",
                        "requirements.txt", ";", " ", "python", " ", "-m", " ",
                        "compileall", " ", ".">>,
     !.expose_ports = <<"8", "0", "0", "0">>,
     !.cmd = <<"python", " ", "app.py">>]

RECURSIVE ColumnSets(_)
\* the sets of at most k optional columns
ColumnSets(k) ==
  IF k = 0 THEN {{}}
  ELSE LET P == ColumnSets(k - 1)
       IN  P \cup {p \cup {c} : p \in P, c \in OptColumns}

\* FullRow with only the optional cells of S filled
RowWith(S) ==
  [c \in Columns |->
     IF c \in S \cup {"app_name", "base_image"} THEN FullRow[c] ELSE <<>>]

\* rows with few cells filled, and rows with all but at most one filled
FieldRows ==
  {RowWith(S) : S \in ColumnSets(MaxSetFields)}
    \cup {RowWith(OptColumns \ S) : S \in ColumnSets(1)}

\* tokens of a key-value cell
KVTokens ==
  {<<>>, <<"k">>, <<"k", "=", "v">>, <<" ", "k", " ", "=", " ", "w", " ">>,
   <<"j", "=", "v", "=", "w">>, <<"=", "v">>}

RECURSIVE JoinedCells(_, _, _)
\* the cells made of 1..n tokens of T joined by separators of Seps
JoinedCells(T, Seps, n) ==
  IF n = 0 THEN {}
  ELSE IF n = 1 THEN T
  ELSE LET P == JoinedCells(T, Seps, n - 1)
       IN  P \cup {p \o <<sp>> \o t : p \in P, sp \in Seps, t \in T}

KVCells == JoinedCells(KVTokens, {";"}, MaxKVTokens)

KVRows ==
  {[BaseRow(<<"svc1">>, <<"img1">>) EXCEPT ![c] = cell] :
     c \in {"env_vars", "args", "label_pairs"}, cell \in KVCells}

\* tokens of an expose_ports cell
PortCellTokens ==
  {<<>>, <<" ">>, <<"8", "0">>, <<"8", "0", "8", "0", ".", "0">>,
   <<" ", "4", "4", "3", " ">>, <<"0", "8", ".", "9">>, <<"x">>, <<".">>}

PortCells == JoinedCells(PortCellTokens, {",", ";"}, MaxPortTokens)

PortRows ==
  {[BaseRow(<<"svc1">>, <<"img1">>) EXCEPT !.expose_ports = cell] :
     cell \in PortCells}

\* cells of the JSON columns that hold no array of objects: arrays of
\* strings, values that are no array, and text that is no JSON
PlainCells ==
  {FullRow.shell,
   <<"{", "\"src\"", ":", "\"a\"", ",", "\"dest\"", ":", "\"b\"", "}">>,
   <<"not", " ", "valid", " ", "json">>,
   <<"sh", " ", "-c">>,
   <<"[", "\"sh\"", ",", "]">>,
   <<"[", "]">>,
   <<"5">>,
   <<"0">>,
   <<"true">>,
   <<"null">>,
   <<"\"sh\"">>}

\* cells of add_files and copy_pairs: arrays of objects, some with an
\* element that lacks a key or is no object
ObjectListCells ==
  {FullRow.add_files,
   FullRow.copy_pairs,
   <<"[", "{", "\"src\"", ":", "\"a\"", ",", "\"dest\"", ":", "\"b\"", ",",
     "\"chown\"", ":", "\"u\"", "}", ",", " ", "{", "\"src\"", ":", "\"c\"",
     ",", "\"dest\"", ":", "\"d\"", "}", "]">>,
   <<"[", "{", "\"src\"", ":", "\"a\"", ",", "\"dest\"", ":", "\"b\"", "}",
     ",", "{", "\"src\"", ":", "\"c\"", "}", "]">>,
   <<"[", "{", "\"dest\"", ":", "\"b\"", "}", ",", "{", "\"src\"", ":",
     "\"a\"", ",", "\"dest\"", ":", "\"b\"", "}", "]">>,
   <<"[", "{", "\"src\"", ":", "\"a\"", ",", "\"dest\"", ":", "\"b\"", "}",
     ",", "5", "]">>,
   <<"[", "{", "\"src\"", ":", "\"a\"", ",", "\"dest\"", ":", "\"b\"", "}",
     ",", "]">>}

JsonRows ==
  {[BaseRow(<<"svc1">>, <<"img1">>) EXCEPT ![c] = cell] :
     c \in {"add_files", "copy_pairs"}, cell \in PlainCells \cup ObjectListCells}
    \cup {[BaseRow(<<"svc1">>, <<"img1">>) EXCEPT !.shell = cell] :
            cell \in PlainCells}

\* the rows of the sheets of one row
SingleRows == FieldRows \cup KVRows \cup PortRows \cup JsonRows \cup {ExampleRow}

\* the rows of the sheets of several rows: two applications, two images,
\* a row with no base image and a row with a port that is no number
BatchRows ==
  {BaseRow(a, b) : a \in {<<"a">>, <<"b">>},
                   b \in {<<"img1">>, <<"img2">>, <<>>}}
    \cup {[BaseRow(a, <<"img1">>) EXCEPT !.expose_ports = <<"x">>] :
            a \in {<<"a">>, <<"b">>}}

RECURSIVE SeqsUpTo(_, _)
\* the non-empty sequences over S of length at most n
SeqsUpTo(S, n) ==
  IF n = 0 THEN {}
  ELSE IF n = 1 THEN {<<x>> : x \in S}
  ELSE LET P == SeqsUpTo(S, n - 1)
       IN  P \cup {Append(p, x) : p \in {q \in P : Len(q) = n - 1}, x \in S}

\* sheets of two rows of one application, some with every cell filled
StageSheets ==
  {<<r1, r2>> : r1, r2 \in {FullRow, ExampleRow, RowWith({}),
                            RowWith({"stage_name", "env_vars", "args"})}}

Sheets ==
  {<<r>> : r \in SingleRows} \cup StageSheets \cup SeqsUpTo(BatchRows, MaxRows)

\* ------------------------------------------------------- the state machine

NoLoad == [ok |-> FALSE, exc |-> "", configs |-> <<>>]

\* no request answered yet
NoResp == [op |-> "none", arg |-> <<>>, status |-> 0, inner |-> 0, body |-> <<>>]

\* a directory with no entry
NoFiles == [n \in {} |-> TRUE]

\* no call of build_image under way
NoBuild == [at |-> "idle"]

\* no call of create_dockerfiles_for_all_apps or delete_app under way
NoRun == [gen |-> "idle", del |-> "idle"]

\* df: the sheet of the uploaded file; pc: the step reached; loaded: what
\* load_configs_from_excel returned or raised; rendered: per application,
\* in app_configs order, what generate_dockerfile returned or raised;
\* out: the entries of OUTPUT_DIR; resp: the response of the last request;
\* up: the files of UPLOAD_DIR, the latest made last; run: the steps reached by a call of
\* create_dockerfiles_for_all_apps and a call of delete_app that run side
\* by side; build: the arguments, the environment and the steps of a call
\* of build_image
Init ==
  /\ df \in Sheets
  /\ pc = "start"
  /\ loaded = NoLoad
  /\ rendered = <<>>
  /\ out = NoFiles
  /\ resp = NoResp
  /\ up = <<>>
  /\ run = NoRun
  /\ build = NoBuild

\* app_configs = load_configs_from_excel(excel_path)
Load ==
  /\ pc = "start"
  /\ loaded' = load_configs_from_excel(df)
  /\ pc' = IF loaded'.ok THEN "loaded" ELSE "load_raised"
  /\ UNCHANGED <<df, rendered, out, resp, up, run, build>>

\* generate_dockerfile(stages) for the stages of every application
Generate ==
  /\ pc = "loaded"
  /\ rendered' = [i \in 1..Len(loaded.configs) |->
                    <<loaded.configs[i][1],
                      generate_dockerfile(loaded.configs[i][2])>>]
  /\ pc' = "generated"
  /\ UNCHANGED <<df, loaded, out, resp, up, run, build>>

Next == Load \/ Generate

Spec == Init /\ [][Next]_vars

\* 1024 * 1024
MiB == 1048576

\* datetime.now(), in days
Now == 10

\* ---------------------------------------------------- the output directory
\* A directory is a function from entry names (str) to entries. An entry
\* is a text file [k |-> "text", text], a file of other content of which
\* only the size matters [k |-> "blob", size], or a directory
\* [k |-> "dir", mtime, files]. Times are whole days.

TextFile(text) == [k |-> "text", text |-> text]
BlobFile(size) == [k |-> "blob", size |-> size]
Dir(mtime, files) == [k |-> "dir", mtime |-> mtime, files |-> files]

\* d with name set to e
Put(d, name, e) == [n \in DOMAIN d \cup {name} |-> IF n = name THEN e ELSE d[n]]

\* shutil.rmtree(os.path.join(d, name)): d without the entry
Remove(d, name) == [n \in DOMAIN d \ {name} |-> d[n]]

\* os.path.exists / os.path.isdir / os.path.isfile of os.path.join(d, name)
Exists(d, name) == name \in DOMAIN d
IsDir(d, name) == Exists(d, name) /\ d[name].k = "dir"
IsFile(d, name) == Exists(d, name) /\ d[name].k # "dir"

\* item.startswith('.')
Hidden(name) == name # <<>> /\ name[1] = "."

RECURSIVE ByteLen(_)
\* the bytes of a text: the characters of its atoms
ByteLen(text) ==
  IF text = <<>> THEN 0 ELSE Len(Head(text)) + ByteLen(Tail(text))

\* os.path.getsize of a file
GetSize(e) == IF e.k = "text" THEN ByteLen(e.text) ELSE e.size

RECURSIVE SumOver(_, _)
\* the sum of f[x] over the x of S
SumOver(f, S) ==
  IF S = {} THEN 0
  ELSE LET x == CHOOSE y \in S : TRUE IN f[x] + SumOver(f, S \ {x})

RECURSIVE WalkSize(_)
\* the loop over os.walk(path): the sizes of the files of every level
WalkSize(files) ==
  SumOver([n \in DOMAIN files |->
             IF files[n].k = "dir" THEN WalkSize(files[n].files)
             ELSE GetSize(files[n])],
          DOMAIN files)

\* get_directory_size(item_path), item_path a directory entry
get_directory_size(e) == WalkSize(e.files)

\* round(size / (1024 * 1024), 2), in hundredths: the nearest hundredth of
\* a MiB, a tie going to the even one
RoundMb(size) ==
  LET q == (size * 100) \div MiB
      r == (size * 100) % MiB
  IN  IF 2 * r > MiB \/ (2 * r = MiB /\ q % 2 = 1) THEN q + 1 ELSE q

\* the orders a set of names may be listed in
Orders(S) ==
  {s \in [1..Cardinality(S) -> S] : \A i, j \in DOMAIN s : i # j => s[i] # s[j]}

\* os.listdir(path): the names, in an order the file system chooses
ListDir(d) == Orders(DOMAIN d)

\* the items of `for item in os.listdir(OUTPUT_DIR)` that pass
\* `if os.path.isdir(item_path) and not item.startswith('.')`, in each
\* order os.listdir may give them in
AppItems(d) == Orders({n \in DOMAIN d : IsDir(d, n) /\ ~Hidden(n)})

\* -------------------------------------------------- reading a stored file

\* str.upper() of one atom (the atoms with no entry have no lower-case
\* letter)
UpperAtom(a) ==
  CASE a = "from" -> "FROM" [] a = "run" -> "RUN"   [] a = "echo" -> "ECHO"
    [] a = "here" -> "HERE" [] a = "make" -> "MAKE" [] a = "img1" -> "IMG1"
    [] a = "img2" -> "IMG2" [] OTHER -> a

\* str.upper()
Upper(s) == [i \in 1..Len(s) |-> UpperAtom(s[i])]

\* sub in s
HasSub(s, sub) ==
  \E i \in 1..(Len(s) - Len(sub) + 1) : SubSeq(s, i, i + Len(sub) - 1) = sub

\* s.startswith(pre)
StartsWith(s, pre) == Len(s) >= Len(pre) /\ SubSeq(s, 1, Len(pre)) = pre

RECURSIVE ReplaceSub(_, _, _)
\* s.replace(sub, by), sub not empty
ReplaceSub(s, sub, by) ==
  IF s = <<>> THEN <<>>
  ELSE IF StartsWith(s, sub)
  THEN by \o ReplaceSub(SubSeq(s, Len(sub) + 1, Len(s)), sub, by)
  ELSE <<Head(s)>> \o ReplaceSub(Tail(s), sub, by)

\* with open(dockerfile_path, 'r') as f: f.read() -- open() raises on a
\* directory
ReadText(files, name) ==
  IF files[name].k = "dir" THEN [ok |-> FALSE, text |-> <<>>]
  ELSE [ok |-> TRUE, text |-> files[name].text]

DockerfileName == <<"Dockerfile">>

\* the is_invalid / reason computed for an app directory by
\* cleanup_invalid_apps, and in the same words by preview_cleanup
InvalidReason(files) ==
  IF ~Exists(files, DockerfileName) THEN "No Dockerfile found"
  ELSE LET r == ReadText(files, DockerfileName)
           content == Strip(r.text)
       IN  IF ~r.ok THEN "Error reading Dockerfile"
           ELSE IF content = <<>> THEN "Empty Dockerfile"
           ELSE IF ~HasSub(Upper(content), <<"FROM", " ">>)
           THEN "No FROM instruction in Dockerfile"
           ELSE ""

\* is_invalid as get_storage_summary computes it
SummaryInvalid(files) ==
  IF ~Exists(files, DockerfileName) THEN TRUE
  ELSE LET r == ReadText(files, DockerfileName)
           content == Strip(r.text)
       IN  IF ~r.ok THEN TRUE
           ELSE content = <<>> \/ ~HasSub(Upper(content), <<"FROM", " ">>)

\* contents = [f for f in os.listdir(item_path) if not f.startswith('.')]
Contents(files) == {n \in DOMAIN files : ~Hidden(n)}

\* the comparison taking the cutoff itself for old
OlderThanOrAt(mtime, days) == mtime <= Now - days

\* mod_time < datetime.now() - timedelta(days=days)
OlderThan(mtime, days) == mtime < Now - days

\* ------------------------------------------- the states of OUTPUT_DIR met

\* directories as a user or an earlier run may have left them
SampleDirs ==
  {Dir(Now - 10, NoFiles),
   Dir(Now - 3, Put(NoFiles, <<".", "keep">>, BlobFile(0))),
   Dir(Now - 7, Put(NoFiles, DockerfileName, TextFile(<<>>))),
   Dir(Now - 10, Put(Put(NoFiles, DockerfileName, TextFile(<<"FROM", " ", "img1">>)),
                     <<"src">>,
                     Dir(Now - 10, Put(NoFiles, <<"main.py">>, BlobFile(8000))))),
   Dir(Now - 7, Put(Put(NoFiles, DockerfileName, TextFile(<<"from", " ", "img1">>)),
                    <<"app.py">>, BlobFile(4000))),
   Dir(Now - 7, Put(NoFiles, DockerfileName,
                       TextFile(<<"RUN", " ", "echo", " ", "from", " ", "here">>))),
   Dir(Now - 3, Put(NoFiles, DockerfileName, TextFile(<<"RUN", " ", "make">>))),
   Dir(Now - 10, Put(NoFiles, <<"app.py">>, BlobFile(4000))),
   Dir(Now - 3, Put(NoFiles, DockerfileName, TextFile(<<"\n">>)))}

\* the names application directories have
AppDirNames == {<<"a">>, <<"b">>}

\* what OUTPUT_DIR holds beside them: a hidden directory, old and empty,
\* and a plain file
Beside ==
  Put(Put(NoFiles, <<".", "cache">>, Dir(Now - 10, NoFiles)),
      <<"notes.txt">>, BlobFile(4000))

\* OUTPUT_DIR with any of the sample directories, or none, under the first
\* name and any of the oldest of them, or none, under the second
Stores ==
  {[n \in DOMAIN Beside \cup S |-> IF n \in S THEN f[n] ELSE Beside[n]] :
     f \in {g \in [AppDirNames -> SampleDirs] : g[<<"b">>].mtime = Now - 10},
     S \in SUBSET AppDirNames}

\* ------------------------------------------------- the handlers: files.py

\* The request answered and its response: the handler, its argument, the
\* status sent, the status of the HTTPException raised inside the handler's
\* try block (0 when none was), and the body.
Response(op, arg, status, inner, body) ==
  [op |-> op, arg |-> arg, status |-> status, inner |-> inner, body |-> body]

\* `raise HTTPException(status_code=404, ...)` inside `try:`, caught by
\* `except Exception as e: raise HTTPException(status_code=500, ...)`
Caught404(op, arg) == Response(op, arg, 500, 404, <<>>)

\* any other exception caught by the same clause
Caught(op, arg, exc) == Response(op, arg, 500, 0, exc)

\* the response sent, and OUTPUT_DIR as the handler leaves it
Answer(r, o) ==
  /\ resp' = r
  /\ out' = o
  /\ UNCHANGED <<df, pc, loaded, rendered, up, run, build>>

\* os.path.exists(os.path.join(OUTPUT_DIR, app_name, filename))
ExistsIn(d, app_name, filename) ==
  IsDir(d, app_name) /\ Exists(d[app_name].files, filename)

get_dockerfile(app_name) ==
  LET op == "get_dockerfile"
      r  == IF ~ExistsIn(out, app_name, DockerfileName)
            THEN Caught404(op, app_name)
            ELSE LET t == ReadText(out[app_name].files, DockerfileName)
                 IN  IF t.ok THEN Response(op, app_name, 200, 0, t.text)
                     ELSE Caught(op, app_name, "IsADirectoryError")
  IN  Answer(r, out)

list_app_files(app_name) ==
  LET op == "list_app_files" IN
  IF ~Exists(out, app_name) THEN Answer(Caught404(op, app_name), out)
  ELSE IF ~IsDir(out, app_name)
  THEN Answer(Caught(op, app_name, "NotADirectoryError"), out)
  ELSE \E names \in ListDir(out[app_name].files) :
         LET fs == out[app_name].files
             files == [i \in 1..Len(names) |->
                         [name |-> names[i],
                          is_directory |-> IsDir(fs, names[i]),
                          size |-> IF IsFile(fs, names[i])
                                   THEN PyInt(GetSize(fs[names[i]]))
                                   ELSE PyNone]]
         IN  Answer(Response(op, app_name, 200, 0,
                             [files |-> files, total_files |-> Len(files)]),
                    out)

download_file(app_name, filename) ==
  LET op == "download_file"
      r  == IF ~ExistsIn(out, app_name, filename)
            THEN Caught404(op, <<app_name, filename>>)
            ELSE Response(op, <<app_name, filename>>, 200, 0,
                          out[app_name].files[filename])
  IN  Answer(r, out)

delete_app(app_name) ==
  LET op == "delete_app" IN
  IF ~Exists(out, app_name) THEN Answer(Caught404(op, app_name), out)
  ELSE IF ~IsDir(out, app_name)
  THEN Answer(Caught(op, app_name, "NotADirectoryError"), out)
  ELSE Answer(Response(op, app_name, 200, 0, <<>>), Remove(out, app_name))

\* a key the dict does not hold
Absent == [t |-> "absent"]

RECURSIVE DockerfileInfo(_, _)
\* the loop over the lines of a Dockerfile in list_all_apps
DockerfileInfo(lines, acc) ==
  IF lines = <<>> THEN acc
  ELSE LET line == Strip(Head(lines))
       IN  DockerfileInfo(Tail(lines),
             IF StartsWith(line, <<"FROM", " ">>)
             THEN [acc EXCEPT !.base_image =
                     PyStr(ReplaceSub(line, <<"FROM", " ">>, <<>>))]
             ELSE IF StartsWith(line, <<"EXPOSE", " ">>)
             THEN [acc EXCEPT !.exposed_ports =
                     Append(@, ReplaceSub(line, <<"EXPOSE", " ">>, <<>>))]
             ELSE acc)

\* app_info of list_all_apps
AppInfo(d, item) ==
  LET fs == d[item].files
      has_dockerfile == Exists(fs, DockerfileName)
      t == ReadText(fs, DockerfileName)
  IN  [name |-> item,
       has_dockerfile |-> has_dockerfile,
       dockerfile_error |-> has_dockerfile /\ ~t.ok,
       info |-> IF ~has_dockerfile \/ ~t.ok
                THEN [base_image |-> Absent, exposed_ports |-> Absent]
                ELSE DockerfileInfo(Split(t.text, "\n"),
                       [base_image |-> PyNone, exposed_ports |-> <<>>])]

\* GET /files/apps: the non-hidden directories of OUTPUT_DIR, in the order
\* os.listdir gives them, each with what its Dockerfile tells
list_all_apps ==
  \E items \in AppItems(out) :
    LET apps  == [i \in 1..Len(items) |-> AppInfo(out, items[i])]
    IN  Answer(Response("list_all_apps", <<>>, 200, 0,
                        [apps |-> apps, total |-> Len(apps)]),
               out)

cleanup_all ==
  Answer(Response("cleanup_all", <<>>, 200, 0, <<>>), NoFiles)

\* OUTPUT_DIR after shutil.rmtree of each of the items
RemoveAll(d, items) ==
  [n \in DOMAIN d \ {items[i] : i \in 1..Len(items)} |-> d[n]]

\* cleanup_old_files adding up the rounded figures it reports
CleanupOldSumOfRounded(days) ==
  \E items \in AppItems(out) :
    LET old == SelectSeq(items, LAMBDA n : OlderThan(out[n].mtime, days))
        size_mb == [n \in DOMAIN out |->
                      IF IsDir(out, n)
                      THEN RoundMb(get_directory_size(out[n])) ELSE 0]
        deleted_apps == [i \in 1..Len(old) |->
                           [name |-> old[i],
                            last_modified |-> out[old[i]].mtime,
                            size_mb |-> size_mb[old[i]]]]
    IN  Answer(Response("cleanup_old_files", days, 200, 0,
                        [deleted_apps |-> deleted_apps,
                         total_size_freed_mb |->
                           SumOver(size_mb, {old[i] : i \in 1..Len(old)})]),
               RemoveAll(out, old))

cleanup_old_files(days) ==
  \E items \in AppItems(out) :
    LET old == SelectSeq(items, LAMBDA n : OlderThan(out[n].mtime, days))
        size == [n \in DOMAIN out |->
                   IF IsDir(out, n) THEN get_directory_size(out[n]) ELSE 0]
        deleted_apps == [i \in 1..Len(old) |->
                           [name |-> old[i],
                            last_modified |-> out[old[i]].mtime,
                            size_mb |-> RoundMb(size[old[i]])]]
        total_size_freed == SumOver(size, {old[i] : i \in 1..Len(old)})
    IN  Answer(Response("cleanup_old_files", days, 200, 0,
                        [deleted_apps |-> deleted_apps,
                         total_size_freed_mb |-> RoundMb(total_size_freed)]),
               RemoveAll(out, old))

\* cleanup_empty_directories taking a directory of hidden files for not empty
CleanupEmptyCountingHidden ==
  \E items \in AppItems(out) :
    LET deleted_apps == SelectSeq(items, LAMBDA n : DOMAIN out[n].files = {})
    IN  Answer(Response("cleanup_empty_directories", <<>>, 200, 0,
                        [deleted_apps |-> deleted_apps]),
               RemoveAll(out, deleted_apps))

cleanup_empty_directories ==
  \E items \in AppItems(out) :
    LET deleted_apps == SelectSeq(items,
                                  LAMBDA n : Contents(out[n].files) = {})
    IN  Answer(Response("cleanup_empty_directories", <<>>, 200, 0,
                        [deleted_apps |-> deleted_apps]),
               RemoveAll(out, deleted_apps))

cleanup_invalid_apps ==
  \E items \in AppItems(out) :
    LET invalid == SelectSeq(items,
                             LAMBDA n : InvalidReason(out[n].files) # "")
        deleted_apps == [i \in 1..Len(invalid) |->
                           [name |-> invalid[i],
                            reason |-> InvalidReason(out[invalid[i]].files)]]
    IN  Answer(Response("cleanup_invalid_apps", <<>>, 200, 0,
                        [deleted_apps |-> deleted_apps]),
               RemoveAll(out, invalid))

\* app_info of preview_cleanup for one item
PreviewInfo(d, item, days, show_empty, show_invalid) ==
  LET e == d[item]
      age == IF days.t # "none" /\ OlderThan(e.mtime, days.n)
             THEN <<"Older than {days} days">> ELSE <<>>
      empty == IF show_empty /\ Contents(e.files) = {}
               THEN <<"Empty directory">> ELSE <<>>
      invalid == IF show_invalid /\ InvalidReason(e.files) # ""
                 THEN <<InvalidReason(e.files)>> ELSE <<>>
      reasons == age \o empty \o invalid
  IN  [name |-> item,
       last_modified |-> e.mtime,
       size_mb |-> RoundMb(get_directory_size(e)),
       will_be_deleted |-> reasons # <<>>,
       reasons |-> reasons]

preview_cleanup(days, show_empty, show_invalid) ==
  \E items \in AppItems(out) :
    LET preview_apps == [i \in 1..Len(items) |->
                           PreviewInfo(out, items[i], days, show_empty,
                                       show_invalid)]
        to_delete == {i \in 1..Len(items) : preview_apps[i].will_be_deleted}
        total_size == SumOver([i \in 1..Len(items) |->
                                 get_directory_size(out[items[i]])],
                              to_delete)
    IN  Answer(Response("preview_cleanup",
                        [days |-> days, show_empty |-> show_empty,
                         show_invalid |-> show_invalid],
                        200, 0,
                        [total_apps |-> Len(preview_apps),
                         apps_to_delete |-> Cardinality(to_delete),
                         total_size_to_free_mb |-> RoundMb(total_size),
                         apps |-> preview_apps]),
               out)

\* the insertion putting the earlier time first
InsertByTimeAscending(sorted, x) ==
  LET before == {i \in 1..Len(sorted) :
                   sorted[i].last_modified <= x.last_modified}
      k == Cardinality(before)
  IN  SubSeq(sorted, 1, k) \o <<x>> \o SubSeq(sorted, k + 1, Len(sorted))

\* sorted(apps, key=lambda x: x["last_modified"], reverse=True): a stable
\* sort, the later time first
InsertByTime(sorted, x) ==
  LET before == {i \in 1..Len(sorted) :
                   sorted[i].last_modified >= x.last_modified}
      k == Cardinality(before)
  IN  SubSeq(sorted, 1, k) \o <<x>> \o SubSeq(sorted, k + 1, Len(sorted))

RECURSIVE SortedByTime(_, _)
SortedByTime(apps, acc) ==
  IF apps = <<>> THEN acc
  ELSE SortedByTime(Tail(apps), InsertByTime(acc, Head(apps)))

\* the entry of get_storage_summary for one item
SummaryInfo(d, item) ==
  LET e == d[item]
  IN  [name |-> item,
       size_mb |-> RoundMb(get_directory_size(e)),
       has_dockerfile |-> Exists(e.files, DockerfileName),
       is_empty |-> Contents(e.files) = {},
       is_invalid |-> SummaryInvalid(e.files),
       last_modified |-> e.mtime,
       file_count |-> Cardinality(Contents(e.files))]

get_storage_summary ==
  \E items \in AppItems(out) :
    LET apps == [i \in 1..Len(items) |-> SummaryInfo(out, items[i])]
        Count(P(_)) == Cardinality({i \in 1..Len(apps) : P(apps[i])})
        dockerfile_count == Count(LAMBDA a : a.has_dockerfile /\ ~a.is_invalid)
        empty_dirs == Count(LAMBDA a : a.is_empty)
        invalid_apps == Count(LAMBDA a : a.is_invalid)
        total_size == SumOver([i \in 1..Len(items) |->
                                 get_directory_size(out[items[i]])],
                              1..Len(items))
    IN  Answer(Response("get_storage_summary", <<>>, 200, 0,
                        [total_apps |-> Len(apps),
                         valid_apps |-> dockerfile_count,
                         empty_directories |-> empty_dirs,
                         invalid_apps |-> invalid_apps,
                         total_size_mb |-> RoundMb(total_size),
                         can_cleanup_empty |-> empty_dirs > 0,
                         can_cleanup_invalid |-> invalid_apps > 0,
                         total_cleanable_items |-> empty_dirs + invalid_apps,
                         apps |-> SortedByTime(apps, <<>>)]),
               out)

\* ---------------------------------------- create_dockerfiles_for_all_apps

\* os.makedirs(folder, exist_ok=True) and open(.../"Dockerfile", "w") with
\* f.write(dockerfile_content) for one application: the directory is made
\* when missing, the file is made or truncated and holds the content; a new
\* entry in a directory sets the directory's time. os.path.join(output_dir,
\* '') is output_dir itself.
WriteDockerfile(d, app_name, content) ==
  IF app_name = <<>>
  THEN IF IsDir(d, DockerfileName)
       THEN [ok |-> FALSE, exc |-> "IsADirectoryError", d |-> d]
       ELSE [ok |-> TRUE, exc |-> "",
             d |-> Put(d, DockerfileName, TextFile(content))]
  ELSE IF IsFile(d, app_name)
  THEN [ok |-> FALSE, exc |-> "FileExistsError", d |-> d]
  ELSE LET made == IF Exists(d, app_name) THEN d
                   ELSE Put(d, app_name, Dir(Now, NoFiles))
           e == made[app_name]
       IN  IF IsDir(e.files, DockerfileName)
           THEN [ok |-> FALSE, exc |-> "IsADirectoryError", d |-> made]
           ELSE [ok |-> TRUE, exc |-> "",
                 d |-> Put(made, app_name,
                         Dir(IF Exists(e.files, DockerfileName) THEN e.mtime
                             ELSE Now,
                             Put(e.files, DockerfileName, TextFile(content))))]

\* the body of the loop for one application, g being what
\* generate_dockerfile(stages) returned or raised
WriteApp(g, app_name, d) ==
  IF ~g.ok THEN [ok |-> FALSE, exc |-> g.exc, d |-> d]
  ELSE WriteDockerfile(d, app_name, g.text)

RECURSIVE WriteApps(_, _), WriteRest(_, _)
\* the loop over app_configs.items(): it ends at the first exception
WriteApps(configs, d) ==
  IF configs = <<>> THEN [ok |-> TRUE, exc |-> "", d |-> d]
  ELSE WriteRest(WriteApp(generate_dockerfile(Head(configs)[2]),
                          Head(configs)[1], d),
                 Tail(configs))

\* the loop after one application, w being how its pass ended
WriteRest(w, configs) == IF ~w.ok THEN w ELSE WriteApps(configs, w.d)

\* the loop, app_configs being what load_configs_from_excel returned or
\* raised
WriteLoaded(app_configs, d) ==
  IF ~app_configs.ok THEN [ok |-> FALSE, exc |-> app_configs.exc, d |-> d]
  ELSE WriteApps(app_configs.configs, d)

\* create_dockerfiles_for_all_apps(excel_path, output_dir): OUTPUT_DIR as
\* the call leaves it, and the exception it raised if it raised one
create_dockerfiles_for_all_apps(sheet, d) ==
  WriteLoaded(load_configs_from_excel(sheet), d)

\* ------------------------------------------------- the handlers: build.py

\* sheet is what the latest Excel file of UPLOAD_DIR holds when the request
\* comes
\* the handler after create_dockerfiles_for_all_apps returned or raised
Generated(sheet, c) ==
  LET op == "generate_dockerfiles" IN
  IF ~c.ok THEN Answer(Caught(op, sheet, c.exc), c.d)
  ELSE \E app_folders \in AppItems(c.d) :
         Answer(Response(op, sheet, 200, 0,
                         [generated_apps |-> app_folders,
                          total_apps |-> Len(app_folders)]),
                c.d)

generate_dockerfiles(sheet) ==
  Generated(sheet, create_dockerfiles_for_all_apps(sheet, out))

list_apps ==
  \E app_folders \in Orders({n \in DOMAIN out : IsDir(out, n)}) :
    LET apps_info == [i \in 1..Len(app_folders) |->
                        [name |-> app_folders[i],
                         dockerfile_exists |->
                           Exists(out[app_folders[i]].files, DockerfileName)]]
    IN  Answer(Response("list_apps", <<>>, 200, 0,
                        [apps |-> apps_info, total_apps |-> Len(apps_info)]),
               out)

\* str.lower() of one atom (the atoms with no entry have no upper-case
\* letter)
LowerAtom(a) ==
  CASE a = "FROM" -> "from" [] a = "RUN" -> "run" [] OTHER -> a

\* repo_name of build_app and build_all_apps
RepoName(app_name) ==
  LET repo_name == Replace([i \in 1..Len(app_name) |-> LowerAtom(app_name[i])],
                           "_", "-")
  IN  IF ByteLen(repo_name) < 2 THEN <<"k8s-app-">> \o repo_name
      ELSE IF repo_name[1] \in {"k8s-", "app-"} THEN repo_name
      ELSE <<"k8s-">> \o repo_name

\* build_image(folder, repo_name, tag): the image URI, or BuildPushError
\* when folder holds no Dockerfile file or when the environment (AWS
\* account and credentials, docker build, the scan) fails, which env tells
build_image(d, app_name, env_ok) ==
  IF IsFile(d[app_name].files, DockerfileName) /\ env_ok
  THEN [ok |-> TRUE, image_uri |-> RepoName(app_name) \o <<":", "latest">>]
  ELSE [ok |-> FALSE, image_uri |-> <<>>]

build_app(app_name) ==
  LET op == "build_app" IN
  IF ~Exists(out, app_name) \/ ~ExistsIn(out, app_name, DockerfileName)
  THEN Answer(Caught404(op, app_name), out)
  ELSE \E env_ok \in BOOLEAN :
         LET b == build_image(out, app_name, env_ok)
         IN  Answer(IF b.ok THEN Response(op, app_name, 200, 0, b.image_uri)
                    ELSE Caught(op, app_name, "BuildPushError"),
                    out)

build_all_apps ==
  \E app_folders \in AppItems(out) :
    \E env_ok \in [1..Len(app_folders) -> BOOLEAN] :
      LET results == [i \in 1..Len(app_folders) |->
                        LET b == build_image(out, app_folders[i], env_ok[i])
                        IN  [app_name |-> app_folders[i],
                             status |-> IF b.ok THEN "success" ELSE "failed",
                             image_uri |-> b.image_uri]]
      IN  Answer(Response("build_all_apps", <<>>, 200, 0,
                          [results |-> results,
                           total_apps |-> Len(app_folders),
                           successful_builds |->
                             Cardinality({i \in 1..Len(results) :
                                            results[i].status = "success"})]),
                 out)

\* ------------------------------------------------ the requests and sheets

\* the days of a cleanup
ReqDays == {3, 7}

\* the queries of a preview: nothing asked, each criterion alone, all three
ReqPreviews ==
  {[days |-> PyNone, show_empty |-> FALSE, show_invalid |-> FALSE],
   [days |-> PyNone, show_empty |-> TRUE, show_invalid |-> FALSE],
   [days |-> PyNone, show_empty |-> FALSE, show_invalid |-> TRUE]}
    \cup {[days |-> PyInt(n), show_empty |-> FALSE, show_invalid |-> FALSE] :
            n \in ReqDays}
    \cup {[days |-> PyInt(7), show_empty |-> TRUE, show_invalid |-> TRUE]}

\* the uploaded sheets: two applications, one application of two stages,
\* one with no base image, one whose shell cell makes generate_dockerfile
\* raise followed by a plain one, and one whose app_name cell is empty
StoreSheets ==
  LET A1 == BaseRow(<<"a">>, <<"img1">>)
      A2 == BaseRow(<<"a">>, <<"img2">>)
      B1 == BaseRow(<<"b">>, <<"img1">>)
      A0 == BaseRow(<<"a">>, <<>>)
      A5 == [A1 EXCEPT !.shell = <<"5">>]
      E1 == BaseRow(<<>>, <<"img1">>)
  IN  {<<A1, B1>>, <<A1, A2>>, <<A0>>, <<A5, B1>>, <<E1>>}

\* OUTPUT_DIR in any of the states above, no request answered yet; the
\* sheet is read when generate_dockerfiles is asked for, df holds none
InitStore ==
  /\ df = <<>>
  /\ pc = "start"
  /\ loaded = NoLoad
  /\ rendered = <<>>
  /\ out \in Stores
  /\ resp = NoResp
  /\ up = <<>>
  /\ run = NoRun
  /\ build = NoBuild

NextStore ==
  \/ \E app_name \in AppDirNames : get_dockerfile(app_name)
  \/ \E app_name \in AppDirNames : list_app_files(app_name)
  \/ \E app_name \in AppDirNames, filename \in {DockerfileName} :
       download_file(app_name, filename)
  \/ \E app_name \in AppDirNames : delete_app(app_name)
  \/ list_all_apps
  \/ cleanup_all
  \/ \E days \in ReqDays : cleanup_old_files(days)
  \/ cleanup_empty_directories
  \/ cleanup_invalid_apps
  \/ \E q \in ReqPreviews :
       preview_cleanup(q.days, q.show_empty, q.show_invalid)
  \/ get_storage_summary
  \/ \E sheet \in StoreSheets : generate_dockerfiles(sheet)
  \/ list_apps
  \/ \E app_name \in AppDirNames : build_app(app_name)
  \/ build_all_apps

SpecStore == InitStore /\ [][NextStore]_vars

\* ------------------------------------------------- reading a Dockerfile

\* the lines of a Dockerfile text
TextLines(text) == Split(text, "\n")

\* the non-blank lines
InstructionLines(text) == SelectSeq(TextLines(text), LAMBDA l : l # <<>>)

\* the instruction keyword of a line
Keyword(l) == l[1]

\* the place of a directive in the order FROM, MAINTAINER, ..., CMD
Rank(kw) ==
  CASE kw = "FROM" -> 1        [] kw = "MAINTAINER" -> 2
    [] kw = "LABEL" -> 3       [] kw = "ARG" -> 4
    [] kw = "ENV" -> 5         [] kw = "WORKDIR" -> 6
    [] kw = "ADD" -> 7         [] kw = "COPY" -> 8
    [] kw = "RUN" -> 9         [] kw = "ONBUILD" -> 10
    [] kw = "SHELL" -> 11      [] kw = "STOPSIGNAL" -> 12
    [] kw = "USER" -> 13       [] kw = "VOLUME" -> 14
    [] kw = "EXPOSE" -> 15     [] kw = "HEALTHCHECK" -> 16
    [] kw = "ENTRYPOINT" -> 17 [] kw = "CMD" -> 18
    [] OTHER -> 0

\* the positions of the FROM lines, in order
FromPositions(ls) ==
  LET RECURSIVE go(_)
      go(i) == IF i > Len(ls) THEN <<>>
               ELSE IF Keyword(ls[i]) = "FROM" THEN <<i>> \o go(i + 1)
               ELSE go(i + 1)
  IN  go(1)

\* the k-th stage block: its FROM line and the lines up to the next FROM
Block(ls, k) ==
  LET fp == FromPositions(ls)
  IN  SubSeq(ls, fp[k], IF k < Len(fp) THEN fp[k + 1] - 1 ELSE Len(ls))

\* how many lines of a block carry the keyword
CountKw(block, kw) == Cardinality({i \in 1..Len(block) : Keyword(block[i]) = kw})

\* how many directives of each kind the fields of a stage call for
Wanted(st, kw) ==
  CASE kw = "FROM" -> 1
    [] kw = "MAINTAINER" -> IF st.maintainer # <<>> THEN 1 ELSE 0
    [] kw = "LABEL" -> Len(st.label_pairs)
    [] kw = "ARG" -> Len(st.args)
    [] kw = "ENV" -> Len(st.env_vars)
    [] kw = "WORKDIR" -> IF st.workdir # <<>> THEN 1 ELSE 0
    [] kw = "ADD" -> Len(st.add)
    [] kw = "COPY" -> Len(st.copy)
    [] kw = "RUN" -> Len(st.run_commands)
    [] kw = "ONBUILD" -> IF st.onbuild_cmd # <<>> THEN 1 ELSE 0
    [] kw = "SHELL" -> IF Truthy(st.shell) THEN 1 ELSE 0
    [] kw = "STOPSIGNAL" -> IF st.stopsignal # <<>> THEN 1 ELSE 0
    [] kw = "USER" -> IF st.user # <<>> THEN 1 ELSE 0
    [] kw = "VOLUME" -> Len(st.volume_dirs)
    [] kw = "EXPOSE" -> Len(st.expose_ports)
    [] kw = "HEALTHCHECK" -> IF st.healthcheck # <<>> THEN 1 ELSE 0
    [] kw = "ENTRYPOINT" -> IF Truthy(st.entrypoint) THEN 1 ELSE 0
    [] kw = "CMD" -> IF Truthy(st.cmd) THEN 1 ELSE 0

Keywords ==
  {"FROM", "MAINTAINER", "LABEL", "ARG", "ENV", "WORKDIR", "ADD", "COPY",
   "RUN", "ONBUILD", "SHELL", "STOPSIGNAL", "USER", "VOLUME", "EXPOSE",
   "HEALTHCHECK", "ENTRYPOINT", "CMD"}

\* the applications rendered to text
RenderedOk == {i \in 1..Len(rendered) : rendered[i][2].ok}

\* ------------------------------------------------------------------ claims

\* the order of the directives of text, read back, for the stages given
OrderedFor(stages, text) ==
  LET ls == InstructionLines(text)
  IN  /\ Len(FromPositions(ls)) = Len(stages)
      /\ ls # <<>> /\ Keyword(ls[1]) = "FROM"
      /\ \A i \in 1..Len(ls) : Rank(Keyword(ls[i])) >= 1
      /\ \A i \in 1..(Len(ls) - 1) :
           Keyword(ls[i + 1]) # "FROM"
             => Rank(Keyword(ls[i])) <= Rank(Keyword(ls[i + 1]))
      /\ \A k \in 1..Len(stages) :
           LET b == Block(ls, k)
           IN  /\ SubSeq(b[1], 3, 2 + Len(stages[k].base_image))
                    = stages[k].base_image
               /\ \A kw \in Keywords : CountKw(b, kw) = Wanted(stages[k], kw)

RowsOf(app) == SelectSeq(df, LAMBDA r : r.app_name = app)

\* the stages load_configs_from_excel returned, over all applications
AllStages == Flatten([i \in 1..Len(loaded.configs) |-> loaded.configs[i][2]])

\* a record the loader is to skip: no base image, or a port that is no number
Malformed(row) == row.base_image = <<>> \/ PortsRaise(row.expose_ports)

\* C2: with exactly one malformed record in the sheet, load_configs_from_excel
\* returns, and returns one stage for each of the other records and none for
\* the malformed one.
C2_MalformedRecordSkipped ==
  (pc # "start" /\ Cardinality({i \in 1..Len(df) : Malformed(df[i])}) = 1)
    => /\ loaded.ok
       /\ Len(AllStages) = Len(df) - 1

\* C3: generate_dockerfile returns text for the stages of every application
\* the loader produced; it never raises.
C3_GenerateNeverRaises ==
  pc = "generated" => \A i \in 1..Len(rendered) : rendered[i][2].ok

\* C4: every Stage the loader returns has a non-empty base image.
C4_BaseImageNonEmpty ==
  loaded.ok => \A i \in 1..Len(AllStages) : AllStages[i].base_image # <<>>

\* the cell decodes to an array whose every element is an object with src
\* and dest
DecodesWhole(cell) ==
  LET r == json_loads(cell)
  IN  /\ r.ok
      /\ r.v.t = "list"
      /\ \A i \in 1..Len(r.v.xs) :
           HasItem(r.v.xs[i], <<"src">>) /\ HasItem(r.v.xs[i], <<"dest">>)

\* C5: a Stage built from a row whose add_files (copy_pairs) cell does not
\* decode as a whole has no Add (Copy) instruction at all.
C5_FailedDecodeLeavesNone ==
  loaded.ok =>
    \A i \in 1..Len(loaded.configs) :
      \A j \in 1..Len(loaded.configs[i][2]) :
        LET row == RowsOf(loaded.configs[i][1])[j]
            st == loaded.configs[i][2][j]
        IN  /\ ~DecodesWhole(row.add_files) => st.add = <<>>
            /\ ~DecodesWhole(row.copy_pairs) => st.copy = <<>>

\* the pairs <<app index, stage index>> of the stages returned
StageIds ==
  {<<i, j>> \in (1..Len(loaded.configs)) \X (1..Len(df)) :
     j <= Len(loaded.configs[i][2])}

\* the stage, and the row it was built from
StageAt(id) == loaded.configs[id[1]][2][id[2]]
RowAt(id) == RowsOf(loaded.configs[id[1]][1])[id[2]]

\* the stage blocks of the text rendered for an application
BlockAt(id) == Block(InstructionLines(rendered[id[1]][2].text), id[2])

\* the lines of a block that carry the keyword, in order
LinesOf(block, kw) == SelectSeq(block, LAMBDA l : Keyword(l) = kw)

\* the words of a cell: the maximal runs of characters that are no
\* whitespace, from left to right
WordStarts(cell) ==
  {i \in 1..Len(cell) : ~IsSpace(cell[i]) /\ (i = 1 \/ IsSpace(cell[i - 1]))}

WordFrom(cell, i) ==
  SubSeq(cell, i,
         CHOOSE j \in i..Len(cell) :
           /\ \A k \in i..j : ~IsSpace(cell[k])
           /\ (j = Len(cell) \/ IsSpace(cell[j + 1])))

\* the members of a set of numbers in increasing order
Sorted(S) ==
  CHOOSE q \in [1..Cardinality(S) -> S] :
    \A a, b \in 1..Cardinality(S) : a < b => q[a] < q[b]

Words(cell) ==
  [k \in 1..Cardinality(WordStarts(cell)) |->
     WordFrom(cell, Sorted(WordStarts(cell))[k])]

\* the shell cell is non-empty and is no JSON
ShellDecodeFails(row) == Strip(row.shell) # <<>> /\ ~json_loads(row.shell).ok

\* C6 as claimed: a non-empty shell cell that fails JSON decoding gives a
\* Stage with no shell override, and no SHELL directive is rendered.
C6_FailedShellAbsent ==
  /\ loaded.ok =>
       \A id \in StageIds :
         ShellDecodeFails(RowAt(id)) => StageAt(id).shell = PyNone
  /\ pc = "generated" =>
       \A id \in StageIds :
         (ShellDecodeFails(RowAt(id)) /\ rendered[id[1]][2].ok)
           => CountKw(BlockAt(id), "SHELL") = 0

\* C6 amended: a non-empty shell cell that fails JSON decoding gives a Stage
\* whose shell override is the list of the whitespace-separated words of the
\* cell, and every text rendered for the stage holds exactly one SHELL
\* directive for it, listing those words double-quoted and comma-separated.
C6_FailedShellIsWords ==
  /\ loaded.ok =>
       \A id \in StageIds :
         ShellDecodeFails(RowAt(id)) =>
           /\ StageAt(id).shell.t = "list"
           /\ Len(StageAt(id).shell.xs) = Len(Words(RowAt(id).shell))
           /\ \A k \in 1..Len(Words(RowAt(id).shell)) :
                /\ StageAt(id).shell.xs[k].t = "str"
                /\ StageAt(id).shell.xs[k].s = Words(RowAt(id).shell)[k]
  /\ pc = "generated" =>
       \A id \in StageIds :
         (ShellDecodeFails(RowAt(id)) /\ rendered[id[1]][2].ok) =>
           LinesOf(BlockAt(id), "SHELL") =
                << <<"SHELL", " ", "[">>
                     \o Join(<<",">>,
                          [k \in 1..Len(Words(RowAt(id).shell)) |->
                             <<"\"">> \o Words(RowAt(id).shell)[k] \o <<"\"">>])
                     \o <<"]">> >>

\* C6 witness: the cell "sh -c" was loaded and rendered as SHELL ["sh","-c"]
C6_Witness ==
  /\ pc = "generated"
  /\ df[1].shell = <<"sh", " ", "-c">>
  /\ rendered[1][2].ok
  /\ <<"SHELL", " ", "[", "\"", "sh", "\"", ",", "\"", "-c", "\"", "]">>
       \in {TextLines(rendered[1][2].text)[n] :
              n \in 1..Len(TextLines(rendered[1][2].text))}

\* the pieces of a cell between separators, as <<first, last>> positions
\* (last = first - 1 for an empty piece)
Pieces(cell, sep) ==
  {p \in (1..Len(cell) + 1) \X (0..Len(cell)) :
     /\ p[2] >= p[1] - 1
     /\ (p[1] = 1 \/ cell[p[1] - 1] = sep)
     /\ (p[2] = Len(cell) \/ cell[p[2] + 1] = sep)
     /\ \A k \in p[1]..p[2] : cell[k] # sep}

PieceText(cell, p) == SubSeq(cell, p[1], p[2])

\* the pieces that hold "=", and the key and the value of such a piece: the
\* text before its first "=" and the text after it, both trimmed
EqPieces(cell) == {p \in Pieces(cell, ";") : Contains(PieceText(cell, p), "=")}

FirstEq(cell, p) ==
  CHOOSE i \in p[1]..p[2] : cell[i] = "=" /\ \A j \in p[1]..(i - 1) : cell[j] # "="

KeyOf(cell, p) == Strip(SubSeq(cell, p[1], FirstEq(cell, p) - 1))
ValueOf(cell, p) == Strip(SubSeq(cell, FirstEq(cell, p) + 1, p[2]))

\* the map columns, each with the field and the directive it feeds
MapColumns ==
  {<<"env_vars", "ENV">>, <<"args", "ARG">>, <<"label_pairs", "LABEL">>}

MapOf(st, col) ==
  CASE col = "env_vars" -> st.env_vars
    [] col = "args" -> st.args
    [] col = "label_pairs" -> st.label_pairs

\* C7 as claimed: for env_vars, args and label_pairs, a rendered stage holds
\* as many ENV / ARG / LABEL directives as the cell has ";"-separated pieces
\* that contain "=".
C7_DirectivePerToken ==
  pc = "generated" =>
    \A id \in StageIds : \A mc \in MapColumns :
      rendered[id[1]][2].ok =>
        CountKw(BlockAt(id), mc[2]) = Cardinality(EqPieces(RowAt(id)[mc[1]]))

\* C7 amended: a rendered stage holds as many ENV / ARG / LABEL directives
\* as there are distinct trimmed keys among the ";"-separated pieces of the
\* cell that contain "=".
C7_DirectivePerKey ==
  pc = "generated" =>
    \A id \in StageIds : \A mc \in MapColumns :
      rendered[id[1]][2].ok =>
        CountKw(BlockAt(id), mc[2]) =
          Cardinality({KeyOf(RowAt(id)[mc[1]], p) :
                         p \in EqPieces(RowAt(id)[mc[1]])})

\* C7 witness: a cell with the key k in two pieces rendered as one ENV line
C7_Witness ==
  /\ pc = "generated"
  /\ Len(df) = 1
  /\ df[1].env_vars = <<"k", "=", "v", ";", " ", "k", " ", "=", " ", "w", " ">>
  /\ rendered[1][2].ok
  /\ LinesOf(InstructionLines(rendered[1][2].text), "ENV")
       = << <<"ENV", " ", "k", "=", "w">> >>

\* C8: the map parse_key_value_pairs builds from a cell has one item per
\* distinct key of the pieces that contain "="; a key is the trimmed text
\* before the first "=" of a piece and its value the trimmed text after that
\* first "=", of the last piece with the key; pieces without "=" give
\* nothing; and the items stand in the order in which the keys first appear.
C8_KeyValuePairs ==
  loaded.ok =>
    \A id \in StageIds : \A mc \in MapColumns :
      LET cell == RowAt(id)[mc[1]]
          d == MapOf(StageAt(id), mc[1])
          first(k) == CHOOSE i \in {p[1] : p \in {q \in EqPieces(cell) : KeyOf(cell, q) = k}} : 
                        \A q \in EqPieces(cell) : KeyOf(cell, q) = k => i <= q[1]
          last(k) == CHOOSE p \in EqPieces(cell) :
                       /\ KeyOf(cell, p) = k
                       /\ \A q \in EqPieces(cell) : KeyOf(cell, q) = k => q[1] <= p[1]
      IN  /\ {d[n][1] : n \in 1..Len(d)} = {KeyOf(cell, p) : p \in EqPieces(cell)}
          /\ \A m, n \in 1..Len(d) : m < n => first(d[m][1]) < first(d[n][1])
          /\ \A n \in 1..Len(d) : d[n][2] = ValueOf(cell, last(d[n][1]))

\* C8 witness: the cell "k=v;j=v=w; k = w " was parsed to {k: w, j: v=w}
C8_Witness ==
  /\ pc = "loaded"
  /\ Len(df) = 1
  /\ df[1].args = <<"k", "=", "v", ";", "j", "=", "v", "=", "w", ";",
                    " ", "k", " ", "=", " ", "w", " ">>
  /\ loaded.configs[1][2][1].args
       = << <<<<"k">>, <<"w">>>>, <<<<"j">>, <<"v", "=", "w">>>> >>

\* the pieces of an expose_ports cell between "," and ";", left to right,
\* trimmed, the blank ones dropped
PortPieces(cell) ==
  LET c == [i \in 1..Len(cell) |-> IF cell[i] = "," THEN ";" ELSE cell[i]]
      ps == {p \in Pieces(c, ";") : Strip(PieceText(c, p)) # <<>>}
      at == Sorted({p[1] : p \in ps})
  IN  [k \in 1..Cardinality(ps) |->
         Strip(PieceText(c, CHOOSE p \in ps : p[1] = at[k]))]

\* the numeric tokens of the input cells with the integer each denotes and
\* the decimal numeral of that integer
NumericTokens ==
  {<<"8", "0">>, <<"8", "0", "8", "0", ".", "0">>, <<"4", "4", "3">>,
   <<"0", "8", ".", "9">>, <<"8", "0", "0", "0">>}

PortValue(tok) ==
  CASE tok = <<"8", "0">> -> 80
    [] tok = <<"8", "0", "8", "0", ".", "0">> -> 8080
    [] tok = <<"4", "4", "3">> -> 443
    [] tok = <<"0", "8", ".", "9">> -> 8
    [] tok = <<"8", "0", "0", "0">> -> 8000

PortNumeral(n) ==
  CASE n = 80 -> <<"8", "0">>
    [] n = 8080 -> <<"8", "0", "8", "0">>
    [] n = 443 -> <<"4", "4", "3">>
    [] n = 8 -> <<"8">>
    [] n = 8000 -> <<"8", "0", "0", "0">>

\* every non-blank piece of the expose_ports cell is a numeric token
AllNumeric(row) ==
  \A k \in 1..Len(PortPieces(row.expose_ports)) :
    PortPieces(row.expose_ports)[k] \in NumericTokens

\* C9: a sheet whose expose_ports cells hold only numeric tokens loads; the
\* ports of each Stage are the integers its non-blank trimmed tokens denote,
\* in cell order ("8080.0" gives 8080), and they render, in that order, as
\* lines EXPOSE <decimal numeral>.
C9_PortsAreIntegers ==
  (pc # "start" /\ \A r \in 1..Len(df) : AllNumeric(df[r])) =>
    /\ loaded.ok
    /\ \A id \in StageIds :
         LET toks == PortPieces(RowAt(id).expose_ports)
         IN  /\ StageAt(id).expose_ports
                  = [k \in 1..Len(toks) |-> PortValue(toks[k])]
             /\ (pc = "generated" /\ rendered[id[1]][2].ok) =>
                  LinesOf(BlockAt(id), "EXPOSE")
                    = [k \in 1..Len(toks) |->
                         <<"EXPOSE", " ">> \o PortNumeral(PortValue(toks[k]))]

\* C9 witness: the cell "8080.0; 443 " was rendered as EXPOSE 8080, EXPOSE 443
C9_Witness ==
  /\ pc = "generated"
  /\ Len(df) = 1
  /\ df[1].expose_ports
       = <<"8", "0", "8", "0", ".", "0", ";", " ", "4", "4", "3", " ">>
  /\ loaded.configs[1][2][1].expose_ports = <<8080, 443>>
  /\ LinesOf(InstructionLines(rendered[1][2].text), "EXPOSE")
       = << <<"EXPOSE", " ", "8", "0", "8", "0">>,
            <<"EXPOSE", " ", "4", "4", "3">> >>

\* the application names of the sheet
AppNames == {df[r].app_name : r \in 1..Len(df)}

\* C10: when the sheet loads, app_configs has one key per application name
\* of the sheet, the stages of an application are those of its rows in row
\* order (also when rows of other applications stand between them), and the
\* stages of all applications together are as many as the rows.
C10_GroupedInRowOrder ==
  loaded.ok =>
    /\ {loaded.configs[i][1] : i \in 1..Len(loaded.configs)} = AppNames
    /\ \A i, j \in 1..Len(loaded.configs) :
         loaded.configs[i][1] = loaded.configs[j][1] => i = j
    /\ \A i \in 1..Len(loaded.configs) :
         LET rows == RowsOf(loaded.configs[i][1])
             stages == loaded.configs[i][2]
         IN  /\ Len(stages) = Len(rows)
             /\ \A j \in 1..Len(stages) :
                  /\ stages[j].base_image = rows[j].base_image
                  /\ stages[j].name = rows[j].stage_name
    /\ Len(AllStages) = Len(df)

\* C10 witness: rows a/img1, b/img1, a/img2 were loaded as a: img1, img2 and
\* b: img1
C10_Witness ==
  /\ loaded.ok
  /\ Len(df) = 3
  /\ df[1].app_name = <<"a">> /\ df[2].app_name = <<"b">>
  /\ df[3].app_name = <<"a">>
  /\ df[1].base_image = <<"img1">> /\ df[3].base_image = <<"img2">>
  /\ Len(loaded.configs) = 2
  /\ loaded.configs[1][1] = <<"a">>
  /\ Len(loaded.configs[1][2]) = 2
  /\ loaded.configs[1][2][1].base_image = <<"img1">>
  /\ loaded.configs[1][2][2].base_image = <<"img2">>

\* ------------------------------------------------------------------- C11

\* the positions of the blank lines of a text
BlankPositions(ls) == {j \in 1..Len(ls) : ls[j] = <<>>}

\* the positions where a stage block starts: the lines that open with FROM
BlockStarts(ls) == {j \in 1..Len(ls) : ls[j] # <<>> /\ Keyword(ls[j]) = "FROM"}

AppDirs(d) == {n \in DOMAIN d : d[n].k = "dir" /\ ~Hidden(n)}

\* the text has a FROM instruction: a line whose first word is FROM, in
\* upper or lower case
HasFromInstruction(text) ==
  \E i \in 1..Len(TextLines(text)) :
    LET l == LStrip(TextLines(text)[i])
    IN  l # <<>> /\ UpperAtom(l[1]) = "FROM"

\* the directory has no Dockerfile, an empty one, or one with no FROM
\* instruction
NoValidDockerfile(files) ==
  \/ ~Exists(files, DockerfileName)
  \/ files[DockerfileName].k = "text"
       /\ (Strip(files[DockerfileName].text) = <<>>
            \/ ~HasFromInstruction(files[DockerfileName].text))

\* the names of the entries of a list of a response
NamesOf(entries) == {entries[i].name : i \in 1..Len(entries)}

\* the query of a preview that asks for one criterion alone
OnlyInvalid == [days |-> PyNone, show_empty |-> FALSE, show_invalid |-> TRUE]
OnlyEmpty == [days |-> PyNone, show_empty |-> TRUE, show_invalid |-> FALSE]
OnlyDays(n) == [days |-> PyInt(n), show_empty |-> FALSE, show_invalid |-> FALSE]

\* the applications a preview marks will_be_deleted
Marked(r) ==
  {r.body.apps[i].name : i \in {j \in 1..Len(r.body.apps) :
                                  r.body.apps[j].will_be_deleted}}

\* C12: cleanup-invalid, the preview asked for invalid directories and the
\* storage summary classify an application directory invalid exactly when
\* it has no Dockerfile, an empty Dockerfile, or a Dockerfile with no FROM
\* instruction (so 'RUN echo from here' alone is invalid)
C12_InvalidIffNoFromInstruction ==
  [][LET invalid == {n \in AppDirs(out) : NoValidDockerfile(out[n].files)}
     IN  /\ resp'.op = "cleanup_invalid_apps"
              => NamesOf(resp'.body.deleted_apps) = invalid
         /\ (resp'.op = "preview_cleanup" /\ resp'.arg = OnlyInvalid)
              => Marked(resp') = invalid
         /\ resp'.op = "get_storage_summary"
              => {resp'.body.apps[i].name :
                    i \in {j \in 1..Len(resp'.body.apps) :
                             resp'.body.apps[j].is_invalid}} = invalid]_vars

\* ------------------------------------------------------------------- C13

\* a step by which a cleanup answers right after a preview: the preview
\* left OUTPUT_DIR as it was, so both saw the same state
CleanupAfterPreview(query, op, arg) ==
  /\ resp.op = "preview_cleanup" /\ resp.arg = query
  /\ resp'.op = op /\ resp'.arg = arg

\* the cleanup removed exactly the directories of S, reported them, and
\* left every other entry of OUTPUT_DIR with all it holds
RemovedExactly(S, reported) ==
  /\ reported = S
  /\ DOMAIN out' = DOMAIN out \ S
  /\ \A n \in DOMAIN out' : out'[n] = out[n]

\* C13: on any state of OUTPUT_DIR, the applications the preview marks
\* will_be_deleted when asked for invalid directories alone (for empty
\* ones alone, for those older than d days alone) are exactly the
\* directories cleanup-invalid (cleanup-empty, cleanup-by-age with d)
\* removes on that state, and the cleanup leaves every other directory and
\* what it holds unchanged
C13_CleanupMatchesPreview ==
  [][/\ CleanupAfterPreview(OnlyInvalid, "cleanup_invalid_apps", <<>>)
          => RemovedExactly(Marked(resp), NamesOf(resp'.body.deleted_apps))
     /\ CleanupAfterPreview(OnlyEmpty, "cleanup_empty_directories", <<>>)
          => RemovedExactly(Marked(resp),
                            {resp'.body.deleted_apps[i] :
                               i \in 1..Len(resp'.body.deleted_apps)})
     /\ \A d \in ReqDays :
          CleanupAfterPreview(OnlyDays(d), "cleanup_old_files", d)
            => RemovedExactly(Marked(resp),
                              NamesOf(resp'.body.deleted_apps))]_vars

\* a cleanup has removed one application directory and kept another
C13_Witness ==
  /\ resp.op \in {"cleanup_invalid_apps", "cleanup_empty_directories",
                   "cleanup_old_files"}
  /\ Len(resp.body.deleted_apps) = 1
  /\ AppDirs(out) # {}

\* ------------------------------------------------------------------- C14

\* C14: cleanup-by-age with threshold d deletes an entry of OUTPUT_DIR if
\* and only if it is a non-hidden directory last modified strictly before
\* now minus d days: with d = 7 a directory modified 10 days ago goes and
\* one modified 3 days ago stays, and a hidden entry or an entry that is
\* not a directory is never deleted
C14_DeletedIffStrictlyOlder ==
  [][resp'.op = "cleanup_old_files" =>
       \A n \in DOMAIN out :
         /\ n \notin DOMAIN out' <=>
              /\ out[n].k = "dir" /\ n[1] # "."
              /\ out[n].mtime < Now - resp'.arg
         /\ n \in DOMAIN out' => out'[n] = out[n]
         /\ (resp'.arg = 7 /\ n \in AppDirs(out)) =>
              /\ out[n].mtime = Now - 10 => n \notin DOMAIN out'
              /\ out[n].mtime = Now - 3 => n \in DOMAIN out']_vars

\* with d = 7 the directory modified 10 days ago is gone, and the one
\* modified 3 days ago, the old hidden directory and the plain file stay
C14_Witness ==
  /\ resp.op = "cleanup_old_files" /\ resp.arg = 7
  /\ \E i \in 1..Len(resp.body.deleted_apps) :
       /\ resp.body.deleted_apps[i].name = <<"b">>
       /\ resp.body.deleted_apps[i].last_modified = Now - 10
  /\ <<"b">> \notin DOMAIN out
  /\ <<"a">> \in DOMAIN out /\ out[<<"a">>].mtime = Now - 3
  /\ <<".", "cache">> \in DOMAIN out
  /\ out[<<".", "cache">>].mtime = Now - 10
  /\ <<"notes.txt">> \in DOMAIN out

\* the directory modified exactly d days ago stays
C14_WitnessAtCutoff ==
  /\ resp.op = "cleanup_old_files" /\ resp.arg = 7
  /\ <<"a">> \in DOMAIN out /\ out[<<"a">>].mtime = Now - 7

\* ------------------------------------------------------------------- C15

\* the bytes under the directories a cleanup-by-age answer r names, as
\* they were in the directory d the cleanup began with
BytesBefore(d, r) ==
  [n \in NamesOf(r.body.deleted_apps) |-> get_directory_size(d[n])]

\* the figure mb, in hundredths of a MiB, is the hundredth nearest to the
\* byte count bytes
NearestHundredth(mb, bytes) ==
  /\ 2 * (mb * MiB - 100 * bytes) <= MiB
  /\ 2 * (100 * bytes - mb * MiB) <= MiB

\* C15 as stated: for every directory cleanup-by-age deletes, the figure
\* reported for it is its recursive byte size before the deletion, and the
\* total reported is the sum of those byte sizes (a reported figure of x
\* is the value x / 100 here)
C15_ReportedIsByteSize ==
  [][resp'.op = "cleanup_old_files" =>
       LET deleted == resp'.body.deleted_apps
           bytes == BytesBefore(out, resp')
       IN  /\ \A i \in 1..Len(deleted) :
                deleted[i].size_mb = 100 * bytes[deleted[i].name]
           /\ resp'.body.total_size_freed_mb
                = 100 * SumOver(bytes, DOMAIN bytes)]_vars

\* C15: for every directory cleanup-by-age deletes, size_mb is its
\* recursive byte size before the deletion, in MiB to the nearest
\* hundredth, and total_size_freed_mb is the sum of those byte sizes, in
\* MiB to the nearest hundredth
C15_ReportedIsByteSizeInMb ==
  [][resp'.op = "cleanup_old_files" =>
       LET deleted == resp'.body.deleted_apps
           bytes == BytesBefore(out, resp')
       IN  /\ \A i \in 1..Len(deleted) :
                NearestHundredth(deleted[i].size_mb, bytes[deleted[i].name])
           /\ NearestHundredth(resp'.body.total_size_freed_mb,
                               SumOver(bytes, DOMAIN bytes))]_vars

\* two directories deleted, each reported as 0.0 MiB, the total as 0.01
C15_Witness ==
  /\ resp.op = "cleanup_old_files"
  /\ Len(resp.body.deleted_apps) = 2
  /\ \A i \in 1..2 : resp.body.deleted_apps[i].size_mb = 0
  /\ resp.body.total_size_freed_mb = 1

\* ------------------------------------------------------------------- C16

\* the application a request names
AskedApp(r) == IF r.op = "download_file" THEN r.arg[1] ELSE r.arg

\* the answer r is to a request about something OUTPUT_DIR d does not
\* hold: the Dockerfile, the files, a file or the deletion of an
\* application that has no directory, or the build of an application that
\* has no directory or no Dockerfile
AsksForMissing(d, r) ==
  \/ /\ r.op \in {"get_dockerfile", "list_app_files", "download_file",
                   "delete_app", "build_app"}
     /\ AskedApp(r) \notin DOMAIN d
  \/ /\ r.op = "build_app"
     /\ r.arg \in DOMAIN d /\ d[r.arg].k = "dir"
     /\ DockerfileName \notin DOMAIN d[r.arg].files

\* C16: a request for the Dockerfile, the file list, a file or the
\* deletion of an application that does not exist, and a build request
\* for an application with no directory or no Dockerfile, is answered
\* with status 404 and leaves the file system as it was
C16_MissingIsNotFound ==
  [][AsksForMissing(out, resp') => resp'.status = 404 /\ out' = out]_vars

\* ------------------------------------------------------------------- C17

\* application app_name of OUTPUT_DIR d has a Dockerfile holding text
HoldsDockerfile(d, app_name, text) ==
  /\ app_name \in DOMAIN d /\ d[app_name].k = "dir"
  /\ DockerfileName \in DOMAIN d[app_name].files
  /\ d[app_name].files[DockerfileName] = [k |-> "text", text |-> text]

\* every application of app_configs whose stages compile has its
\* Dockerfile in d, whatever became of the others
EachCompiledWritten(app_configs, d) ==
  \A i \in 1..Len(app_configs) :
    generate_dockerfile(app_configs[i][2]).ok =>
      HoldsDockerfile(d, app_configs[i][1],
                      generate_dockerfile(app_configs[i][2]).text)

\* C17: a batch operation continues past the failure of one item.
\* Generate-all still writes the Dockerfile of every application that
\* compiles when another application of the sheet fails; build-all
\* answers with one result for each application directory and a count of
\* successes equal to the number of results that succeeded
C17_BatchContinuesPastFailure ==
  [][/\ (resp'.op = "generate_dockerfiles"
           /\ load_configs_from_excel(resp'.arg).ok)
          => EachCompiledWritten(load_configs_from_excel(resp'.arg).configs,
                                 out')
     /\ resp'.op = "build_all_apps" =>
          /\ {resp'.body.results[i].app_name :
                 i \in 1..Len(resp'.body.results)} = AppDirs(out)
          /\ Len(resp'.body.results) = Cardinality(AppDirs(out))
          /\ resp'.body.successful_builds
               = Cardinality({i \in 1..Len(resp'.body.results) :
                                resp'.body.results[i].status = "success"})]_vars

\* ------------------------------------------------------------------- C18

\* the application names of app_configs
ConfiguredApps(app_configs) ==
  {app_configs[i][1] : i \in 1..Len(app_configs)}

\* from d to e nothing changed but the Dockerfiles of the applications S:
\* their other files, and every other entry, are as they were
OnlyDockerfilesOf(S, d, e) ==
  /\ DOMAIN e \subseteq DOMAIN d \cup S
  /\ \A n \in DOMAIN d :
       /\ n \in DOMAIN e
       /\ n \notin S => e[n] = d[n]
       /\ (n \in S /\ d[n].k = "dir") =>
            /\ e[n].k = "dir"
            /\ DOMAIN e[n].files \subseteq DOMAIN d[n].files \cup {DockerfileName}
            /\ \A f \in DOMAIN d[n].files \ {DockerfileName} :
                 f \in DOMAIN e[n].files /\ e[n].files[f] = d[n].files[f]

\* C18: generation writes, for each application of the configuration, the
\* file <output_root>/<app_name>/Dockerfile, which then holds exactly the
\* text compiled from that application's stages, and it leaves every other
\* file of that directory and every other application's directory as it
\* was
C18_GenerationWritesEachDockerfile ==
  [][(resp'.op = "generate_dockerfiles"
        /\ load_configs_from_excel(resp'.arg).ok)
       => LET app_configs == load_configs_from_excel(resp'.arg).configs
          IN  /\ \A i \in 1..Len(app_configs) :
                   /\ generate_dockerfile(app_configs[i][2]).ok
                   /\ HoldsDockerfile(out', app_configs[i][1],
                         generate_dockerfile(app_configs[i][2]).text)
              /\ OnlyDockerfilesOf(ConfiguredApps(app_configs), out, out')]_vars

\* ------------------------------------------------------------------- C19

\* C19: a listing of the applications, by either handler of /apps, returns
\* no entry whose name starts with '.', and the total it reports is the
\* number of non-hidden application directories
C19_ListingExcludesHidden ==
  [][/\ resp'.op = "list_all_apps" =>
          /\ \A n \in NamesOf(resp'.body.apps) : n[1] # "."
          /\ resp'.body.total = Cardinality(AppDirs(out))
     /\ resp'.op = "list_apps" =>
          /\ \A n \in NamesOf(resp'.body.apps) : n[1] # "."
          /\ resp'.body.total_apps = Cardinality(AppDirs(out))]_vars

\* ------------------------------------------------------------------- C20

\* the answers that list or classify the applications
Listings == {"list_all_apps", "list_apps", "preview_cleanup",
             "get_storage_summary"}

\* the names a file in OUTPUT_DIR d may have that do not start with '.'
PlainNames(d) == {n \in DOMAIN d \cup AppDirNames : n[1] # "."}

\* C20: a listing, a preview or a storage summary shows OUTPUT_DIR as it
\* is when the request comes, whatever generations, deletions and cleanups
\* came before: an application is in the answer if and only if its
\* directory exists then; the one just deleted is not in it, the ones just
\* generated are
C20_ListingShowsDiskState ==
  [][resp'.op \in Listings =>
       /\ out' = out
       /\ \A n \in PlainNames(out) :
            n \in NamesOf(resp'.body.apps)
              <=> n \in DOMAIN out /\ out[n].k = "dir"
       /\ (resp.op = "delete_app" /\ resp.status = 200)
            => resp.arg \notin NamesOf(resp'.body.apps)
       /\ (resp.op = "generate_dockerfiles" /\ resp.status = 200)
            => ConfiguredApps(load_configs_from_excel(resp.arg).configs)
                 \subseteq NamesOf(resp'.body.apps)]_vars

\* the part of C20 about the directories alone: a non-hidden name is in the
\* answer exactly when its directory exists, and the application just
\* deleted is not in it
C20_ListedIffDirectoryExists ==
  [][resp'.op \in Listings =>
       /\ out' = out
       /\ \A n \in PlainNames(out) :
            n \in NamesOf(resp'.body.apps)
              <=> n \in DOMAIN out /\ out[n].k = "dir"
       /\ (resp.op = "delete_app" /\ resp.status = 200)
            => resp.arg \notin NamesOf(resp'.body.apps)]_vars

\* a listing that shows a directory generation has made, and not the other
\* application, whose directory is gone
C20_Witness ==
  /\ resp.op \in Listings /\ resp.op # "list_apps"
  /\ NamesOf(resp.body.apps) = {<<"a">>}
  /\ out[<<"a">>].mtime = Now
  /\ <<"b">> \notin DOMAIN out
  /\ <<".", "cache">> \in DOMAIN out

\* ------------------------------------------------------------------- C21

\* the application directories of d that cleanup-invalid and the preview
\* classify invalid, and those cleanup-empty and the preview classify empty
ClassifiedInvalid(d) == {n \in AppDirs(d) : InvalidReason(d[n].files) # ""}
ClassifiedEmpty(d) == {n \in AppDirs(d) : Contents(d[n].files) = {}}

\* C21: in the storage summary total_apps is the number of non-hidden
\* application directories, valid_apps + invalid_apps = total_apps,
\* invalid_apps and empty_directories are the numbers of directories
\* classified invalid and empty, and the entries of the applications come
\* in the order of their last-modified times, the latest first
C21_SummaryCounts ==
  [][resp'.op = "get_storage_summary" =>
       LET s == resp'.body IN
       /\ s.total_apps = Cardinality(AppDirs(out))
       /\ s.valid_apps + s.invalid_apps = s.total_apps
       /\ s.invalid_apps = Cardinality(ClassifiedInvalid(out))
       /\ s.empty_directories = Cardinality(ClassifiedEmpty(out))
       /\ Len(s.apps) = s.total_apps
       /\ NamesOf(s.apps) = AppDirs(out)
       /\ \A i \in 1..Len(s.apps) :
            s.apps[i].last_modified = out[s.apps[i].name].mtime
       /\ \A i, j \in 1..Len(s.apps) :
            i < j => s.apps[i].last_modified >= s.apps[j].last_modified]_vars

\* a summary of a valid application and an older, empty one
C21_Witness ==
  /\ resp.op = "get_storage_summary"
  /\ resp.body.total_apps = 2
  /\ resp.body.valid_apps = 1 /\ resp.body.invalid_apps = 1
  /\ resp.body.empty_directories = 1
  /\ resp.body.apps[1].last_modified > resp.body.apps[2].last_modified

\* ------------------- create_dockerfiles_for_all_apps beside delete_app

\* The two calls run in different workers on the same application
\* directory; a step is one system call.  run.gen and run.del are the
\* steps reached, run.entries what rmtree's scandir listed and has not
\* unlinked yet, run.file whether the file the generation opened is still
\* the entry of the directory, run.overlap whether a step was taken while
\* the other call was under way, run.start OUTPUT_DIR at the beginning.

\* the application both calls name, and the configuration generated
RaceApp == <<"a">>
RaceSheet == <<BaseRow(RaceApp, <<"img1">>)>>

\* dockerfile_content = generate_dockerfile(stages)
RaceText ==
  generate_dockerfile(load_configs_from_excel(RaceSheet).configs[1][2]).text

\* OUTPUT_DIR with the application in any of the sample states, or absent
RaceStores == {s \in Stores : <<"b">> \notin DOMAIN s}

GenUnderWay == run.gen \in {"open", "write"}
DelUnderWay == run.del \in {"scandir", "unlink", "rmdir"}

\* the step taken by the generation, and by the deletion
GenStep(to, file) ==
  run' = [run EXCEPT !.gen = to, !.file = file,
                     !.overlap = @ \/ DelUnderWay]
DelStep(to, entries, file) ==
  run' = [run EXCEPT !.del = to, !.entries = entries, !.file = file,
                     !.overlap = @ \/ GenUnderWay]

\* os.makedirs(folder) without exist_ok
GenMakedirsNoExistOk ==
  /\ run.gen = "makedirs"
  /\ out' = IF Exists(out, RaceApp) THEN out
            ELSE Put(out, RaceApp, Dir(Now, NoFiles))
  /\ GenStep(IF Exists(out, RaceApp) THEN "FileExistsError" ELSE "open",
             run.file)

\* os.makedirs(folder, exist_ok=True)
GenMakedirs ==
  /\ run.gen = "makedirs"
  /\ out' = IF Exists(out, RaceApp) THEN out
            ELSE Put(out, RaceApp, Dir(Now, NoFiles))
  /\ GenStep("open", run.file)

\* open(os.path.join(folder, "Dockerfile"), "w"): the file is made, or cut
\* to no bytes; FileNotFoundError when the folder is gone
GenOpen ==
  /\ run.gen = "open"
  /\ IF IsDir(out, RaceApp)
     THEN LET e == out[RaceApp]
          IN  /\ out' = Put(out, RaceApp,
                            Dir(IF Exists(e.files, DockerfileName)
                                THEN e.mtime ELSE Now,
                                Put(e.files, DockerfileName, TextFile(<<>>))))
              /\ GenStep("write", "linked")
     ELSE /\ out' = out
          /\ GenStep("FileNotFoundError", run.file)

\* f.write(dockerfile_content) and the close: the bytes go to the file
\* opened, which is in the directory unless it was unlinked since
GenWrite ==
  /\ run.gen = "write"
  /\ out' = IF run.file = "linked"
            THEN Put(out, RaceApp,
                     Dir(out[RaceApp].mtime,
                         Put(out[RaceApp].files, DockerfileName,
                             TextFile(RaceText))))
            ELSE out
  /\ GenStep("done", run.file)

\* if not os.path.exists(app_path): raise HTTPException(status_code=404)
DelExists ==
  /\ run.del = "exists"
  /\ out' = out
  /\ DelStep(IF Exists(out, RaceApp) THEN "scandir" ELSE "not found",
             run.entries, run.file)

\* shutil.rmtree(app_path): the entries are listed
DelScandir ==
  /\ run.del = "scandir"
  /\ out' = out
  /\ DelStep("unlink", DOMAIN out[RaceApp].files, run.file)

\* shutil.rmtree(app_path): one of the entries listed is removed
DelUnlink ==
  /\ run.del = "unlink"
  /\ \E n \in run.entries :
       /\ out' = Put(out, RaceApp,
                     Dir(Now, Remove(out[RaceApp].files, n)))
       /\ DelStep(IF run.entries = {n} THEN "rmdir" ELSE "unlink",
                  run.entries \ {n},
                  IF n = DockerfileName /\ run.file = "linked"
                  THEN "unlinked" ELSE run.file)

\* shutil.rmtree(app_path) of a directory that listed no entry goes on to
\* the rmdir at once
DelNothingListed ==
  /\ run.del = "unlink" /\ run.entries = {}
  /\ out' = out
  /\ DelStep("rmdir", {}, run.file)

\* shutil.rmtree(app_path): os.rmdir(path), OSError when an entry is there
DelRmdir ==
  /\ run.del = "rmdir"
  /\ IF DOMAIN out[RaceApp].files = {}
     THEN /\ out' = Remove(out, RaceApp)
          /\ DelStep("done", {}, run.file)
     ELSE /\ out' = out
          /\ DelStep("OSError", {}, run.file)

InitRace ==
  /\ df = RaceSheet
  /\ pc = "start"
  /\ loaded = NoLoad
  /\ rendered = <<>>
  /\ resp = NoResp
  /\ up = <<>>
  /\ build = NoBuild
  /\ out \in RaceStores
  /\ run = [gen |-> "makedirs", del |-> "exists", entries |-> {},
            file |-> "none", overlap |-> FALSE, start |-> out]

NextRace ==
  /\ \/ GenMakedirs \/ GenOpen \/ GenWrite
     \/ DelExists \/ DelScandir \/ DelUnlink \/ DelNothingListed \/ DelRmdir
  /\ UNCHANGED <<df, pc, loaded, rendered, resp, up, build>>

SpecRace == InitRace /\ [][NextRace]_vars

\* ------------------------------------------------------------------- C22

GenEnded == run.gen \notin {"makedirs", "open", "write"}
DelEnded == run.del \notin {"exists", "scandir", "unlink", "rmdir"}

\* OUTPUT_DIR d after the generation alone, and after the deletion alone
AfterGen(d) == WriteDockerfile(d, RaceApp, RaceText).d
AfterDel(d) == IF Exists(d, RaceApp) THEN Remove(d, RaceApp) ELSE d

\* C22: regenerate and delete on one application directory are not
\* coordinated.  No step of a call waits for the other call; when the two
\* calls do not overlap, the generation succeeds, the deletion succeeds or
\* finds nothing, and OUTPUT_DIR is as one call after the other leaves it;
\* so the interleaving in which a call fails (the one of the witness) is
\* due to the overlap alone
C22_NotCoordinated ==
  /\ ~GenEnded => ENABLED (GenMakedirs \/ GenOpen \/ GenWrite)
  /\ ~DelEnded => ENABLED (DelExists \/ DelScandir \/ DelUnlink
                            \/ DelNothingListed \/ DelRmdir)
  /\ (GenEnded /\ DelEnded /\ ~run.overlap) =>
       /\ run.gen = "done"
       /\ run.del \in {"done", "not found"}
       /\ out \in {AfterDel(AfterGen(run.start)), AfterGen(AfterDel(run.start))}

\* the deletion removed the directory between the generation's makedirs
\* and its open: the generation failed with FileNotFoundError
C22_Witness ==
  /\ run.overlap
  /\ run.gen = "FileNotFoundError" /\ run.del = "done"
  /\ ~Exists(out, RaceApp)

\* the generation made the Dockerfile between rmtree's listing and its
\* rmdir: the deletion failed, and the other files of the directory are
\* gone
C22_WitnessDeleteFails ==
  /\ run.overlap
  /\ run.gen = "done" /\ run.del = "OSError"
  /\ DOMAIN out[RaceApp].files = {DockerfileName}
  /\ DOMAIN run.start[RaceApp].files # {}
  /\ out # AfterGen(run.start)

\* ------------------------------------------------------------------- C23

\* the applications of the sheet a generation that succeeded has written
JustGenerated ==
  IF resp.op = "generate_dockerfiles" /\ resp.status = 200
  THEN ConfiguredApps(load_configs_from_excel(resp.arg).configs)
  ELSE {}

\* C23: every Dockerfile generation writes is classified valid: right
\* after create_dockerfiles_for_all_apps no generated application is
\* marked invalid by the preview or by the storage summary, and
\* cleanup-invalid deletes none of them, for every configuration that
\* loads (also one record whose only set field is an empty base_image)
C23_GeneratedIsValid ==
  [][/\ resp'.op = "cleanup_invalid_apps" =>
          NamesOf(resp'.body.deleted_apps) \cap JustGenerated = {}
     /\ (resp'.op = "preview_cleanup" /\ resp'.arg = OnlyInvalid) =>
          Marked(resp') \cap JustGenerated = {}
     /\ resp'.op = "get_storage_summary" =>
          \A i \in 1..Len(resp'.body.apps) :
            resp'.body.apps[i].name \in JustGenerated
              => ~resp'.body.apps[i].is_invalid]_vars

\* ------------------------------------------------------------------- C24

\* a name that is a directory of its own below the root: not the root
\* ('' and '.') and not the root's parent ('..')
BelowRoot(n) == n \notin {<<>>, <<".">>, <<".", ".">>}

\* the entries of the root d that are not in e as they are in d
Touched(d, e) == {n \in DOMAIN d : n \notin DOMAIN e \/ e[n] # d[n]}

\* C24: every write and delete stays inside a per-application
\* subdirectory of the output root: whatever the app_name (also an empty
\* one), generation makes or changes only the Dockerfile of directories
\* <output_root>/<app_name> strictly below the root and removes nothing,
\* and delete_app removes one directory strictly below the root and
\* nothing else
C24_StaysBelowRoot ==
  [][/\ resp'.op = "generate_dockerfiles" =>
          /\ Touched(out, out') = {}
               \/ Touched(out, out') \subseteq AppDirs(out)
          /\ \A n \in Touched(out', out) :
               /\ BelowRoot(n) /\ out'[n].k = "dir"
               /\ \A g \in Touched(out'[n].files,
                                    IF n \in DOMAIN out /\ out[n].k = "dir"
                                    THEN out[n].files ELSE NoFiles) :
                    g = DockerfileName
     /\ (resp'.op = "delete_app" /\ resp'.status = 200) =>
          /\ BelowRoot(resp'.arg)
          /\ resp'.arg \in DOMAIN out /\ out[resp'.arg].k = "dir"
          /\ Touched(out, out') = {resp'.arg}
          /\ Touched(out', out) = {}]_vars

\* ------------------------------------------------ the handlers: upload.py

\* What a file of UPLOAD_DIR holds: bytes pd.read_excel cannot read, or a
\* workbook, with or without the column base_image, and its rows.
Garbage == [k |-> "garbage"]
Book(base_image, rows) ==
  [k |-> "book", base_image |-> base_image, rows |-> rows]

\* filename.endswith(('.xlsx', '.xls')), the last atom of a name being its
\* extension
IsExcelName(filename) ==
  filename # <<>> /\ filename[Len(filename)] \in {".xlsx", ".xls"}

\* the file is made or written anew under its name, which makes it the
\* latest of the directory
SaveUpload(files, filename, content) ==
  Append(SelectSeq(files, LAMBDA e : e.name # filename),
         [name |-> filename, content |-> content])

\* upload_excel(file): the 400 for the extension is raised before the
\* try; the file is saved before it is read and checked, and the 400 for
\* the missing column is raised inside the try
upload_excel(filename, content) ==
  LET op == "upload_excel"
      arg == [filename |-> filename, content |-> content]
  IN  /\ IF ~IsExcelName(filename)
         THEN /\ resp' = Response(op, arg, 400, 0, <<>>)
              /\ up' = up
         ELSE /\ up' = SaveUpload(up, filename, content)
              /\ resp' = IF content.k = "garbage"
                         THEN Caught(op, arg, "ValueError")
                         ELSE IF ~content.base_image
                         THEN Response(op, arg, 500, 400, <<>>)
                         ELSE Response(op, arg, 200, 0,
                                       [filename |-> filename,
                                        total_apps |-> Len(content.rows),
                                        config_preview |-> content.rows])
      /\ UNCHANGED <<df, pc, loaded, rendered, out, run, build>>

\* excel_files = [f for f in os.listdir(UPLOAD_DIR) if f.endswith(...)]
ExcelFiles(files) == SelectSeq(files, LAMBDA e : IsExcelName(e.name))

\* max(excel_files, key=os.path.getctime)
LatestFile(files) == ExcelFiles(files)[Len(ExcelFiles(files))]

\* get_config_preview()
get_config_preview ==
  LET op == "get_config_preview" IN
  IF ExcelFiles(up) = <<>> THEN Answer(Caught404(op, <<>>), out)
  ELSE LET latest == LatestFile(up)
       IN  Answer(IF latest.content.k = "garbage"
                  THEN Caught(op, latest.name, "ValueError")
                  ELSE Response(op, latest.name, 200, 0,
                                [filename |-> latest.name,
                                 total_apps |-> Len(latest.content.rows),
                                 configurations |-> latest.content.rows]),
                  out)

\* create_dockerfiles_for_all_apps(excel_path, output_dir), the file
\* holding content: pd.read_excel raises on bytes that are no workbook,
\* and row['base_image'] raises on the first row of a sheet without the
\* column
CreateFromFile(content, d) ==
  IF content.k = "garbage" THEN [ok |-> FALSE, exc |-> "ValueError", d |-> d]
  ELSE IF ~content.base_image /\ content.rows # <<>>
  THEN [ok |-> FALSE, exc |-> "KeyError", d |-> d]
  ELSE create_dockerfiles_for_all_apps(content.rows, d)

\* generate_dockerfiles(), the Excel file taken from UPLOAD_DIR
GenerateLatest ==
  IF ExcelFiles(up) = <<>>
  THEN Answer(Caught404("generate_dockerfiles", <<>>), out)
  ELSE Generated(LatestFile(up), CreateFromFile(LatestFile(up).content, out))

\* the names and contents of the files uploaded
UploadNames == {<<"x", ".xlsx">>, <<"y", ".xls">>, <<"notes", ".txt">>}
UploadContents ==
  {Garbage,
   Book(FALSE, <<[c \in Columns \ {"base_image"} |->
                    IF c = "app_name" THEN <<"b">> ELSE <<>>]>>),
   Book(TRUE, <<BaseRow(<<"a">>, <<"img1">>)>>),
   Book(TRUE, <<BaseRow(<<"b">>, <<"img1">>)>>)}

\* the server just started: UPLOAD_DIR and OUTPUT_DIR made, and empty
InitUpload ==
  /\ df = <<>>
  /\ pc = "start"
  /\ loaded = NoLoad
  /\ rendered = <<>>
  /\ out = NoFiles
  /\ resp = NoResp
  /\ up = <<>>
  /\ run = NoRun
  /\ build = NoBuild

NextUpload ==
  \/ \E filename \in UploadNames, content \in UploadContents :
       upload_excel(filename, content)
  \/ get_config_preview
  \/ GenerateLatest
  \/ \E app_name \in AppDirNames : delete_app(app_name)

SpecUpload == InitUpload /\ [][NextUpload]_vars

\* ------------------------------------ build_image, one step at a time

\* What a call of build_image meets: build.env says whether
\* aws_account_id is passed, whether AWS_ACCOUNT_ID is set, whether the
\* Dockerfile is a file, what check_aws_credentials returns, how
\* create_repository ends, whether docker login and the build exit with 0,
\* the arguments buildx and platforms, whether SKIP_TRIVY_SCAN is 'true'
\* and whether trivy exits with 0.  build.at is the step the call is at,
\* build.passed the steps that succeeded, in order.
BuildEnvs ==
  [account_arg : BOOLEAN, account_env : BOOLEAN, dockerfile : BOOLEAN,
   credentials : BOOLEAN, repository : {"created", "exists", "error"},
   login : BOOLEAN, buildx : BOOLEAN, platforms : BOOLEAN,
   build : BOOLEAN, skip_trivy : BOOLEAN, scan : BOOLEAN]

\* the step at, when ok, is passed and the call goes on to next; it
\* raises BuildPushError otherwise
BuildGoes(at, ok, next) ==
  /\ build.at = at
  /\ build' = IF ok
              THEN [build EXCEPT !.at = next, !.passed = Append(@, at)]
              ELSE [build EXCEPT !.at = "BuildPushError"]
  /\ UNCHANGED <<df, pc, loaded, rendered, out, resp, up, run>>

\* if not aws_account_id: aws_account_id = os.getenv('AWS_ACCOUNT_ID')
BuildAccount ==
  BuildGoes("account", build.env.account_arg \/ build.env.account_env,
            "dockerfile")

\* if not os.path.isfile(dockerfile_path): raise
BuildDockerfile == BuildGoes("dockerfile", build.env.dockerfile, "credentials")

\* if not check_aws_credentials(): raise
BuildCredentials ==
  BuildGoes("credentials", build.env.credentials, "repository")

\* _ensure_ecr_repo(repo_name, region): a repository that exists is no
\* failure
BuildRepository ==
  BuildGoes("repository", build.env.repository # "error", "login")

\* registry = _ecr_login(region); then `if buildx:`
BuildLogin ==
  BuildGoes("login", build.env.login,
            IF build.env.buildx THEN "platforms" ELSE "build")

\* if not platforms: raise
BuildPlatforms == BuildGoes("platforms", build.env.platforms, "buildx")

\* docker buildx build: the call returns after it
BuildBuildx == BuildGoes("buildx", build.env.build, "return")

\* docker build, then the test of SKIP_TRIVY_SCAN
BuildDocker ==
  BuildGoes("build", build.env.build,
            IF build.env.skip_trivy THEN "return" ELSE "scan")

\* trivy image --exit-code 1
BuildScan == BuildGoes("scan", build.env.scan, "return")

\* return image_uri
BuildReturn == BuildGoes("return", TRUE, "returned")

InitBuild ==
  /\ df = <<>>
  /\ pc = "start"
  /\ loaded = NoLoad
  /\ rendered = <<>>
  /\ out = NoFiles
  /\ resp = NoResp
  /\ up = <<>>
  /\ run = NoRun
  /\ build \in [env : BuildEnvs, at : {"account"}, passed : {<<>>}]

NextBuild ==
  \/ BuildAccount \/ BuildDockerfile \/ BuildCredentials \/ BuildRepository
  \/ BuildLogin \/ BuildPlatforms \/ BuildBuildx \/ BuildDocker
  \/ BuildScan \/ BuildReturn

SpecBuild == InitBuild /\ [][NextBuild]_vars

\* ------------------------------------------------------------------- C25

\* the upload request answered by r was rejected
Rejected(r) == r.op = "upload_excel" /\ r.status # 200

\* an upload of a file of this name and content is rejected
IsRejected(e) ==
  \/ ~IsExcelName(e.name)
  \/ e.content.k = "garbage"
  \/ ~e.content.base_image

\* C25: an upload that is rejected (wrong extension, unreadable workbook,
\* no base_image column) leaves no file in the upload directory, and a
\* later generate-dockerfiles never takes a rejected upload for its
\* configuration
C25_RejectedUploadLeavesNoFile ==
  [][/\ Rejected(resp') =>
          \A i \in 1..Len(up') :
            up'[i] # [name |-> resp'.arg.filename,
                      content |-> resp'.arg.content]
     /\ (resp'.op = "generate_dockerfiles" /\ ExcelFiles(up) # <<>>) =>
          ~IsRejected(resp'.arg)]_vars

\* ------------------------------------------------------------------- C26

\* C26: after any uploads, generations and deletions, the generated_apps
\* and total_apps a generate-dockerfiles call returns are exactly the
\* application names of the Excel file the call used; directories left by
\* earlier generations are not among them
C26_GeneratedAppsAreTheSheets ==
  [][(resp'.op = "generate_dockerfiles" /\ resp'.status = 200) =>
       LET names == ConfiguredApps(
                      load_configs_from_excel(resp'.arg.content.rows).configs)
           generated_apps == resp'.body.generated_apps
       IN  /\ {generated_apps[i] : i \in 1..Len(generated_apps)} = names
           /\ resp'.body.total_apps = Cardinality(names)]_vars

\* ------------------------------------------------------------------- C27

\* the steps of s that are among names, in the order s has them
Among(s, names) == SelectSeq(s, LAMBDA x : x \in names)

\* C27: build_image returns an image URI only after the account-id check,
\* the Dockerfile check, the credential check, the repository ensure, the
\* registry login and the docker build have succeeded, in that order, and,
\* unless SKIP_TRIVY_SCAN is true, only after the vulnerability scan
\* exited with success; on every path, the one of buildx=True too
C27_ReturnsOnlyAfterAllSteps ==
  build.at = "returned" =>
    /\ Among([i \in 1..Len(build.passed) |->
                IF build.passed[i] = "buildx" THEN "build"
                ELSE build.passed[i]],
             {"account", "dockerfile", "credentials", "repository", "login",
              "build"})
         = <<"account", "dockerfile", "credentials", "repository", "login",
             "build">>
    /\ ~build.env.skip_trivy =>
         /\ build.env.scan
         /\ \E i \in 1..Len(build.passed) : build.passed[i] = "scan"

\* ------------------------------------------------------------------- C28

\* C28: in the storage summary total_cleanable_items is the number of
\* distinct application directories that cleanup-empty and
\* cleanup-invalid, run on the same state, would delete
C28_CleanableItemsAreDistinct ==
  [][resp'.op = "get_storage_summary" =>
       resp'.body.total_cleanable_items
         = Cardinality(ClassifiedEmpty(out) \cup ClassifiedInvalid(out))]_vars

====
